---- MODULE Spec2Model ----
(***************************************************************************)
(* Model of the GlobalRegistry of vincent212/actors (python).             *)
(*                                                                         *)
(* Two threads share the three maps of one GlobalRegistry without a lock:  *)
(*   - the request thread (run_registry's loop, or the actor worker that   *)
(*     calls the _on_* handlers), which handles one request at a time;     *)
(*   - the "heartbeat-monitor" thread (_heartbeat_monitor).                *)
(* One step of the model is one operation on a shared dict or set (these   *)
(* are atomic under the interpreter lock); the threads interleave between  *)
(* such operations.  Time is the monotonic clock in whole seconds.         *)
(***************************************************************************)
EXTENDS Integers, Sequences, FiniteSets, TLC

(* ---------------------------------------------------------------------- *)
(* Bounds and program constants                                            *)
(* ---------------------------------------------------------------------- *)
MaxClock == 9

\* the clock is observed every TickSeconds seconds
TickSeconds == 3

\* the sends the threads outside the actors do
MaxSends == 3

\* the calls of end() on one manager
MaxEndCalls == 2

HEARTBEAT_TIMEOUT_S == 6

HEARTBEAT_CHECK_INTERVAL_S == 1

\* a heartbeat interval longer than the registry's decay threshold
HeartbeatIntervalLong == HEARTBEAT_TIMEOUT_S + HEARTBEAT_CHECK_INTERVAL_S + 1

\* RegistryClient: time.sleep(self.HEARTBEAT_INTERVAL_S) between two heartbeats
HEARTBEAT_INTERVAL_S == 2

\* RegistryClient._get_socket: zmq.RCVTIMEO of 5000 ms
RCVTIMEO_S == 5

\* RegistryClient.stop_heartbeat: self._heartbeat_thread.join(timeout=3.0)
JOIN_TIMEOUT_S == 3

Managers == {"m1", "m2"}
Names == {"a", "b"}
Endpoints == {"e1", "e2"}

\* each manager registers its actors under its own endpoint
ManagerEndpoint == [m \in Managers |-> IF m = "m1" THEN "e1" ELSE "e2"]
Forms == {"standalone", "actor"}

\* the threads that use one RegistryClient: the caller of its methods and the
\* heartbeat threads that start_heartbeat creates
HeartbeatThreads == {"t1", "t2"}

Threads == {"main"} \cup HeartbeatThreads

\* the monitor threads that calls of GlobalRegistry.init() can start
MonitorThreads == {"s1", "s2"}

Null == "null"

(* ---------------------------------------------------------------------- *)
(* Python dict/set operations as used by the registry                      *)
(* ---------------------------------------------------------------------- *)

\* d[k] = v on a dict kept as a function with a varying domain
MapSet(d, k, v) == [x \in (DOMAIN d) \cup {k} |-> IF x = k THEN v ELSE d[x]]

\* d.pop(k, default) / del d[k]: the dict without key k
MapDel(d, k) == [x \in (DOMAIN d) \ {k} |-> d[x]]

\* _heartbeats is iterated, so it keeps its insertion order: a sequence of
\* <<manager_id, last_heartbeat>> pairs.
HbKeys(h) == {h[i][1] : i \in 1..Len(h)}

HbIndex(h, m) == CHOOSE i \in 1..Len(h) : h[i][1] = m

HbGet(h, m) == h[HbIndex(h, m)][2]

\* self._heartbeats[m] = t : overwrite in place, or append a new key
HbSet(h, m, t) ==
  IF m \in HbKeys(h)
  THEN [i \in 1..Len(h) |-> IF h[i][1] = m THEN <<m, t>> ELSE h[i]]
  ELSE Append(h, <<m, t>>)

\* self._heartbeats.pop(m, None)
HbPop(h, m) == SelectSeq(h, LAMBDA p : p[1] # m)

(* ---------------------------------------------------------------------- *)
(* Messages                                                                *)
(* ---------------------------------------------------------------------- *)
RegisterActor(m, n, e) ==
  [message_type |-> "RegisterActor", manager_id |-> m, actor_name |-> n, actor_endpoint |-> e]

UnregisterActor(n) ==
  [message_type |-> "UnregisterActor", manager_id |-> Null, actor_name |-> n, actor_endpoint |-> Null]

LookupActor(n) ==
  [message_type |-> "LookupActor", manager_id |-> Null, actor_name |-> n, actor_endpoint |-> Null]

Heartbeat(m) ==
  [message_type |-> "Heartbeat", manager_id |-> m, actor_name |-> Null, actor_endpoint |-> Null]

NoRequest ==
  [message_type |-> Null, manager_id |-> Null, actor_name |-> Null, actor_endpoint |-> Null]

Requests ==
  {RegisterActor(m, n, ManagerEndpoint[m]) : m \in Managers, n \in Names}
    \cup {UnregisterActor(n) : n \in Names}
    \cup {LookupActor(n) : n \in Names}
    \cup {Heartbeat(m) : m \in Managers}

\* a key that the received JSON object does not have
Missing == "missing"

\* a request whose message_type is none of the four known ones
UnknownRequest ==
  [message_type |-> "Unknown", manager_id |-> Null, actor_name |-> Null, actor_endpoint |-> Null]

\* the keys a handler of run_registry subscripts: msg_json['...']
RequiredFields(t) ==
  CASE t = "RegisterActor" -> {"manager_id", "actor_name", "actor_endpoint"}
    [] t = "UnregisterActor" -> {"actor_name"}
    [] t = "LookupActor" -> {"actor_name"}
    [] t = "Heartbeat" -> {"manager_id"}
    [] OTHER -> {}

\* requests of a known type that lack one required key
MalformedRequests ==
  UNION {{[r EXCEPT ![f] = Missing] : f \in RequiredFields(r.message_type)} : r \in Requests}

RegistrationOk(n) ==
  [message_type |-> "RegistrationOk", actor_name |-> n, reason |-> Null, endpoint |-> Null, online |-> FALSE]

RegistrationFailed(n, r) ==
  [message_type |-> "RegistrationFailed", actor_name |-> n, reason |-> r, endpoint |-> Null, online |-> FALSE]

LookupResult(n, e, o) ==
  [message_type |-> "LookupResult", actor_name |-> n, reason |-> Null, endpoint |-> e, online |-> o]

HeartbeatAck ==
  [message_type |-> "HeartbeatAck", actor_name |-> Null, reason |-> Null, endpoint |-> Null, online |-> FALSE]

NoReply ==
  [message_type |-> Null, actor_name |-> Null, reason |-> Null, endpoint |-> Null, online |-> FALSE]

\* {'error': 'Unknown message type: ...'}: a reply without message_type; the
\* text is kept in the reason field
ErrorRecord(t) ==
  [message_type |-> Null, actor_name |-> Null, reason |-> "Unknown message type", endpoint |-> Null, online |-> FALSE]

ActorEntry(e, m) == [endpoint |-> e, manager_id |-> m]

NoEntry == [endpoint |-> Null, manager_id |-> Null]

(* ---------------------------------------------------------------------- *)
(* State                                                                   *)
(* ---------------------------------------------------------------------- *)
VARIABLES
  form,            \* which form of the registry runs: run_registry or the actor handlers
  running,         \* GlobalRegistry._running
  clock,           \* time.monotonic(), in seconds
  registry,        \* GlobalRegistry._registry : actor_name -> ActorEntry
  manager_actors,  \* GlobalRegistry._manager_actors : manager_id -> set of actor_name
  heartbeats,      \* GlobalRegistry._heartbeats : manager_id -> last heartbeat (ordered)
  srvpc,           \* position of the request thread
  req,             \* the request being handled
  reply,           \* the reply built for it
  entry,           \* local `entry` of the unregister and lookup handlers
  srvRef,          \* where the set object the request thread holds a reference to lives
  swpc,            \* position of the heartbeat-monitor thread
  now,             \* local `now` of _check_heartbeats
  stale_managers,  \* local `stale_managers` of _check_heartbeats
  hbPos,           \* position of the iterator over _heartbeats.items()
  hbUsed,          \* size of _heartbeats when that iterator was created
  swIdx,           \* position in `for manager_id in stale_managers`
  manager_id,      \* argument of the running _unregister_manager
  actor_names,     \* local `actor_names` of _unregister_manager (the popped set object)
  setRemaining,    \* elements the iterator over actor_names has not yielded yet
  setUsed,         \* size of actor_names when that iterator was created
  actor_name,      \* loop variable of _unregister_manager
  sleptFor,        \* seconds the monitor thread has slept, up to the check interval
  client_running,  \* RegistryClient._running
  heartbeat_thread, \* RegistryClient._heartbeat_thread
  socket,          \* RegistryClient._socket: None, or the state of the REQ socket
  socket_lock,     \* the thread that holds RegistryClient._socket_lock
  in_flight,       \* requests sent on the current socket and not yet received a reply for
  sent,            \* message_type of the request last sent on the socket
  wire_reply,      \* the reply waiting to be received on the socket
  pc,              \* position of each thread that uses the client
  timer,           \* seconds left of each thread's sleep, recv or join
  last_attempt,    \* how the last heartbeat attempt of each heartbeat thread ended
  call,            \* the client method the caller runs or ran last
  result,          \* what that call returned or raised
  msg_obj,         \* a registry protocol message object (a dataclass instance)
  wire_dict,       \* what its to_dict() returned
  twin,            \* a second GlobalRegistry, driven through its actor handlers
  twin_req,        \* the request the twin has handled and run_registry not yet
  monitor_thread,  \* GlobalRegistry._monitor_thread
  monpc,           \* position of each monitor thread an init() has started
  montimer,        \* seconds left of each monitor thread's sleep
  lifepc,          \* position of the caller of init() and end()
  lifecall,        \* init or end: the call the caller runs or ran last
  jointimer,       \* seconds left of end()'s join
  mailbox,         \* each actor's mailbox: the envelopes enqueued and not yet popped
  wire,            \* the wire records on their way to each manager's receiver
  slots,           \* the reply queue of each fast_send
  wpc,             \* position of each worker thread
  current,         \* the envelope each worker's handler invocation is for
  busy,            \* the handler invocations of each actor that are in progress
  log,             \* the envelopes each actor has dispatched, in order
  backlog,         \* the envelopes in each actor's mailbox when its Start was delivered
  mgrpc,           \* position of each manager: managed, running, ending, joining, ended
  pending_end,     \* end(): the actors that have not got their Shutdown yet
  pending_join,    \* end(): the workers not joined yet
  joined,          \* how the join of each worker ended
  end_calls,       \* the calls of end() on each manager
  waiting,         \* the reply queue each caller's fast_send waits on, or 0
  sends_left,      \* the sends the callers may still do
  actor_running,   \* Actor._running of each actor
  pong_ref,        \* PingActor.pong_ref
  terminated       \* ManagerHandle: terminate() was called

srvOther == <<srvpc, req, reply, entry>>

srvVars == <<srvOther, srvRef>>

swOther == <<swpc, now, stale_managers, hbPos, hbUsed, swIdx, manager_id,
             setRemaining, setUsed, actor_name, sleptFor>>

swVars == <<swOther, actor_names>>

mapVars == <<registry, manager_actors, heartbeats>>

regVars == <<form, running, clock, mapVars, srvVars, swVars>>

cliVars == <<client_running, heartbeat_thread, socket, socket_lock, in_flight, sent,
             wire_reply, pc, timer, last_attempt, call, result>>

codecVars == <<msg_obj, wire_dict>>

twinVars == <<twin, twin_req>>

lifeVars == <<monitor_thread, monpc, montimer, lifepc, lifecall, jointimer>>

chanVars == <<mailbox, wire, slots>>

workerVars == <<wpc, current, busy, log, backlog>>

mgrVars == <<mgrpc, pending_end, pending_join, joined, end_calls>>

callerVars == <<waiting, sends_left>>

actVars == <<chanVars, workerVars, mgrVars, callerVars, actor_running, pong_ref, terminated>>

\* what the actor runtime leaves alone
registrySide == <<regVars, cliVars, codecVars, twinVars, lifeVars>>

\* what the registry's request thread, its first monitor thread and the
\* client leave alone
rtVars == <<codecVars, twinVars, lifeVars, actVars>>

vars == <<regVars, cliVars, rtVars>>

\* what a client call returned or raised
Outcome(k, e, o, r) == [kind |-> k, endpoint |-> e, online |-> o, reason |-> r]

NoOutcome == Outcome(Null, Null, FALSE, Null)

\* RegistryClient.__init__
ClientInit ==
  /\ client_running = FALSE
  /\ heartbeat_thread = Null
  /\ socket = "none"
  /\ socket_lock = Null
  /\ in_flight = 0
  /\ sent = Null
  /\ wire_reply = NoReply
  /\ pc = [t \in Threads |-> IF t = "main" THEN "idle" ELSE "unborn"]
  /\ timer = [t \in Threads |-> 0]
  /\ last_attempt = [t \in HeartbeatThreads |-> "none"]
  /\ call = Null
  /\ result = NoOutcome

EmptyMap == [x \in {} |-> Null]

\* no message object has been built yet
NoMessage == [class |-> Null]

(* ---------------------------------------------------------------------- *)
(* The actor runtime: actors, mailboxes, workers and managers              *)
(*                                                                         *)
(* Two manager processes as in the registry ping-pong example: PongManager *)
(* hosts PongActor `pong` and a plain Actor `sink`, PingManager hosts       *)
(* PingActor `ping`.  Threads outside the actors (`Callers`) send to the     *)
(* actors of PongManager through their references.  A handler invocation    *)
(* is two steps, its begin and its end; what the handler does to mailboxes, *)
(* reply queues and the wire happens at its end.                            *)
(* ---------------------------------------------------------------------- *)
Actors == {"ping", "pong", "sink"}

ActorManagers == {"PingManager", "PongManager"}

\* mgr.manage(name, actor) of the two example processes
ManagerOf(a) == IF a = "ping" THEN "PingManager" ELSE "PongManager"

ActorsOf(m) == {a \in Actors : ManagerOf(a) = m}

\* Manager(endpoint=LOCAL_ENDPOINT)
LocalEndpoint(m) ==
  IF m = "PingManager" THEN "tcp://localhost:5002" ELSE "tcp://localhost:5001"

ManagerAt(e) == CHOOSE m \in ActorManagers : LocalEndpoint(m) = e

\* the threads outside the actors that hold references to actors
Callers == {"c1", "c2"}

\* every actor of a manager gets two workers
WorkersOfTwo(a) == {<<a, 1>>, <<a, 2>>}

\* init() starts one worker per managed actor
WorkersOf(a) == {<<a, 1>>}

\* the threads a manager could start
Workers == Actors \X {1, 2}

\* the reply queues the fast_sends create, one per call
Slots == 1..MaxSends

\* messages: the lifecycle kinds and the example's Ping(count), Pong(count)
Msg(k, n) == [kind |-> k, count |-> n]

StartMsg == Msg("Start", 0)

ShutdownMsg == Msg("Shutdown", 0)

\* actor references: LocalActorRef(queue, name), RemoteActorRef(name, endpoint, sender)
LocalRef(a) == [name |-> a, endpoint |-> Null]

RemoteRef(a, e) == [name |-> a, endpoint |-> e]

NoRef == [name |-> Null, endpoint |-> Null]

\* no reply queue: reply_queue=None
NoQueue == 0

\* Envelope(msg, sender=None, reply_queue=None)
Envelope(msg, sender, rq) == [msg |-> msg, sender |-> sender, reply_queue |-> rq]

NoEnvelope == Envelope(Msg(Null, 0), NoRef, NoQueue)

\* GlobalRegistry.__init__ ; the monitor thread and the request loop are not started yet
Init ==
  /\ form \in Forms
  /\ running = FALSE
  /\ clock = 0
  /\ registry = EmptyMap
  /\ manager_actors = EmptyMap
  /\ heartbeats = <<>>
  /\ srvpc = "unstarted"
  /\ req = NoRequest
  /\ reply = NoReply
  /\ entry = NoEntry
  /\ srvRef = "none"
  /\ swpc = "unstarted"
  /\ now = 0
  /\ stale_managers = <<>>
  /\ hbPos = 1
  /\ hbUsed = 0
  /\ swIdx = 1
  /\ manager_id = Null
  /\ actor_names = {}
  /\ setRemaining = {}
  /\ setUsed = 0
  /\ actor_name = Null
  /\ sleptFor = 0
  /\ ClientInit
  /\ msg_obj = NoMessage
  /\ wire_dict = EmptyMap
  /\ twin = [registry |-> EmptyMap, manager_actors |-> EmptyMap, heartbeats |-> <<>>,
             reply |-> NoReply]
  /\ twin_req = NoRequest
  /\ monitor_thread = Null
  /\ monpc = [s \in MonitorThreads |-> "unborn"]
  /\ montimer = [s \in MonitorThreads |-> 0]
  /\ lifepc = "idle"
  /\ lifecall = Null
  /\ jointimer = 0
  /\ mailbox = [a \in Actors |-> <<>>]
  /\ wire = [m \in ActorManagers |-> <<>>]
  /\ slots = [q \in Slots |-> <<>>]
  /\ wpc = [w \in Workers |-> "unborn"]
  /\ current = [w \in Workers |-> NoEnvelope]
  /\ busy = [a \in Actors |-> 0]
  /\ log = [a \in Actors |-> <<>>]
  /\ backlog = [a \in Actors |-> 0]
  /\ mgrpc = [m \in ActorManagers |-> "managed"]
  /\ pending_end = [m \in ActorManagers |-> {}]
  /\ pending_join = [m \in ActorManagers |-> {}]
  /\ joined = [w \in Workers |-> "none"]
  /\ end_calls = [m \in ActorManagers |-> 0]
  /\ waiting = [c \in Callers |-> NoQueue]
  /\ sends_left = MaxSends
  /\ actor_running = [a \in Actors |-> TRUE]
  /\ pong_ref = NoRef
  /\ terminated = [m \in ActorManagers |-> FALSE]

Min(x, y) == IF x < y THEN x ELSE y

\* time passes
Tick ==
  /\ clock + TickSeconds <= MaxClock
  /\ clock' = clock + TickSeconds
  /\ sleptFor' = IF swpc = "sleep"
                 THEN Min(sleptFor + TickSeconds, HEARTBEAT_CHECK_INTERVAL_S)
                 ELSE sleptFor
  /\ UNCHANGED <<rtVars, cliVars, form, running, mapVars, srvVars, swpc, now, stale_managers, hbPos,
                 hbUsed, swIdx, manager_id, actor_names, setRemaining, setUsed,
                 actor_name>>

\* GlobalRegistry.init(): sets _running and starts the monitor thread; the
\* request loop starts serving after it.
RegistryInit ==
  /\ srvpc = "unstarted"
  /\ running' = TRUE
  /\ swpc' = "sleep"
  /\ sleptFor' = 0
  /\ srvpc' = "idle"
  /\ UNCHANGED <<rtVars, cliVars, form, clock, mapVars, req, reply, entry, srvRef, now, stale_managers,
                 hbPos, hbUsed, swIdx, manager_id, actor_names, setRemaining, setUsed,
                 actor_name>>

(* ---------------------------------------------------------------------- *)
(* The request thread                                                      *)
(* ---------------------------------------------------------------------- *)

\* what a request thread does after an exception escapes a handler:
\* run_registry catches only zmq.ZMQError, so the process ends
FaultStandalone == "crashed"

\* the actor worker logs the fault and takes the next envelope
FaultActor == "idle"

AfterFault(f) == IF f = "standalone" THEN FaultStandalone ELSE FaultActor

\* the exception leaves the handler: nothing is replied
Raise ==
  /\ srvpc' = AfterFault(form)
  /\ req' = NoRequest
  /\ reply' = NoReply
  /\ entry' = NoEntry
  /\ srvRef' = "none"

\* the manager whose actor set the request thread holds a reference to
SrvRefManager ==
  IF req.message_type = "RegisterActor" THEN req.manager_id ELSE entry.manager_id

\* socket.recv() + json.loads + the dispatch on message_type
\* (the worker taking an envelope, in the actor form)
\* Receiving touches no shared state, so it is one step with the handler's
\* first operation on the maps.
Recv(t) ==
  /\ srvpc = "idle"
  /\ req' \in {r \in Requests : r.message_type = t}

\* socket.send(reply) / the handler returns: back to waiting for a request
Finish ==
  /\ srvpc = "done"
  /\ srvpc' = "idle"
  /\ req' = NoRequest
  /\ reply' = NoReply
  /\ entry' = NoEntry
  /\ srvRef' = "none"
  /\ UNCHANGED <<rtVars, cliVars, form, running, clock, mapVars, swVars>>

(* --- RegisterActor --- *)

\* the name test left out: every name is taken for free
NameRegisteredNever(reg, n) == FALSE

\* `msg.actor_name in self._registry`
NameRegistered(reg, n) == n \in DOMAIN reg

\* a rejection that still refreshes the requester's heartbeat
RegCheckRefresh ==
  /\ Recv("RegisterActor")
  /\ IF NameRegistered(registry, req'.actor_name)
     THEN /\ reply' = RegistrationFailed(req'.actor_name, "Name already registered")
          /\ srvpc' = "done"
          /\ heartbeats' = HbSet(heartbeats, req'.manager_id, clock)
          /\ UNCHANGED registry
     ELSE /\ reply' = reply
          /\ registry' = MapSet(registry, req'.actor_name,
                                ActorEntry(req'.actor_endpoint, req'.manager_id))
          /\ srvpc' = "reg_ma_check"
          /\ UNCHANGED heartbeats
  /\ UNCHANGED <<rtVars, cliVars, form, running, clock, manager_actors, entry, srvRef, swVars>>

\* the name test and, for a free name, the insertion of the ActorEntry (the
\* monitor thread never inserts a name, so nothing can separate the two)
RegCheck ==
  /\ Recv("RegisterActor")
  /\ IF NameRegistered(registry, req'.actor_name)
     THEN /\ reply' = RegistrationFailed(req'.actor_name, "Name already registered")
          /\ srvpc' = "done"
          /\ UNCHANGED registry
     ELSE /\ reply' = reply
          /\ registry' = MapSet(registry, req'.actor_name,
                                ActorEntry(req'.actor_endpoint, req'.manager_id))
          /\ srvpc' = "reg_ma_check"
  /\ UNCHANGED <<rtVars, cliVars, form, running, clock, manager_actors, heartbeats, entry, srvRef, swVars>>

\* `if msg.manager_id not in self._manager_actors: self._manager_actors[...] = set()`
RegMaCheck ==
  /\ srvpc = "reg_ma_check"
  /\ manager_actors' = IF req.manager_id \notin DOMAIN manager_actors
                       THEN MapSet(manager_actors, req.manager_id, {})
                       ELSE manager_actors
  /\ srvpc' = "reg_ma_get"
  /\ UNCHANGED <<rtVars, cliVars, form, running, clock, registry, heartbeats, req, reply, entry, srvRef,
                 swVars>>

\* the subscript of `self._manager_actors[msg.manager_id].add(...)`: KeyError
\* when the monitor thread popped the key after the membership test
RegMaGet ==
  /\ srvpc = "reg_ma_get"
  /\ IF req.manager_id \in DOMAIN manager_actors
     THEN /\ srvRef' = "dict"
          /\ srvpc' = "reg_ma_add"
          /\ UNCHANGED <<req, reply, entry>>
     ELSE Raise
  /\ UNCHANGED <<rtVars, cliVars, form, running, clock, mapVars, swVars>>

\* set.add / set.discard on the referenced set object: the one in the dict,
\* the one the monitor thread popped and still uses, or one nobody else sees
SetAdd(S, n) == S \cup {n}

\* a discard that leaves the set as it is
SetDiscardKeep(S, n) == S

SetDiscard(S, n) == S \ {n}

RegMaAdd ==
  /\ srvpc = "reg_ma_add"
  /\ CASE srvRef = "dict" ->
            /\ manager_actors' = MapSet(manager_actors, req.manager_id,
                                   SetAdd(manager_actors[req.manager_id], req.actor_name))
            /\ UNCHANGED actor_names
       [] srvRef = "sweeper" ->
            /\ actor_names' = SetAdd(actor_names, req.actor_name)
            /\ UNCHANGED manager_actors
       [] OTHER -> UNCHANGED <<manager_actors, actor_names>>
  /\ srvRef' = "none"
  /\ srvpc' = "reg_hb"
  /\ UNCHANGED <<rtVars, cliVars, form, running, clock, registry, heartbeats, req, reply, entry, swOther>>

\* the registration that forgets the heartbeat
RegisterHeartbeatMissing(h, m, t) == h

\* "Registration counts as heartbeat": self._heartbeats[msg.manager_id] = time.monotonic()
RegisterHeartbeat(h, m, t) == HbSet(h, m, t)

\* the heartbeat of the registration, then the RegistrationOk reply
RegHb ==
  /\ srvpc = "reg_hb"
  /\ heartbeats' = RegisterHeartbeat(heartbeats, req.manager_id, clock)
  /\ reply' = RegistrationOk(req.actor_name)
  /\ srvpc' = "done"
  /\ UNCHANGED <<rtVars, cliVars, form, running, clock, registry, manager_actors, req, entry, srvRef,
                 swVars>>

(* --- UnregisterActor --- *)

\* run_registry always answers RegistrationOk(actor_name)
UnregisterReplyStandalone(n) == RegistrationOk(n)

\* _on_unregister never calls ctx.reply
UnregisterReplyActor(n) == NoReply

UnregisterReply(f, n) ==
  IF f = "standalone" THEN UnregisterReplyStandalone(n) ELSE UnregisterReplyActor(n)

\* entry = self._registry.pop(actor_name, None)
UnPop ==
  /\ Recv("UnregisterActor")
  /\ entry' = IF req'.actor_name \in DOMAIN registry THEN registry[req'.actor_name] ELSE NoEntry
  /\ registry' = MapDel(registry, req'.actor_name)
  /\ IF entry' = NoEntry
     THEN /\ reply' = UnregisterReply(form, req'.actor_name)
          /\ srvpc' = "done"
     ELSE /\ reply' = reply
          /\ srvpc' = "un_check"
  /\ UNCHANGED <<rtVars, cliVars, form, running, clock, manager_actors, heartbeats, srvRef, swVars>>

\* `entry.manager_id in self._manager_actors`
UnCheck ==
  /\ srvpc = "un_check"
  /\ IF entry.manager_id \in DOMAIN manager_actors
     THEN /\ srvpc' = "un_get"
          /\ reply' = reply
     ELSE /\ srvpc' = "done"
          /\ reply' = UnregisterReply(form, req.actor_name)
  /\ UNCHANGED <<rtVars, cliVars, form, running, clock, mapVars, req, entry, srvRef, swVars>>

\* the subscript of `self._manager_actors[entry.manager_id].discard(...)`
UnGet ==
  /\ srvpc = "un_get"
  /\ IF entry.manager_id \in DOMAIN manager_actors
     THEN /\ srvRef' = "dict"
          /\ srvpc' = "un_discard"
          /\ UNCHANGED <<req, reply, entry>>
     ELSE Raise
  /\ UNCHANGED <<rtVars, cliVars, form, running, clock, mapVars, swVars>>

UnDiscard ==
  /\ srvpc = "un_discard"
  /\ CASE srvRef = "dict" ->
            /\ manager_actors' = MapSet(manager_actors, entry.manager_id,
                                   SetDiscard(manager_actors[entry.manager_id], req.actor_name))
            /\ UNCHANGED actor_names
       [] srvRef = "sweeper" ->
            /\ actor_names' = SetDiscard(actor_names, req.actor_name)
            /\ UNCHANGED manager_actors
       [] OTHER -> UNCHANGED <<manager_actors, actor_names>>
  /\ srvRef' = "none"
  /\ reply' = UnregisterReply(form, req.actor_name)
  /\ srvpc' = "done"
  /\ UNCHANGED <<rtVars, cliVars, form, running, clock, registry, heartbeats, req, entry, swOther>>

(* --- LookupActor --- *)

\* the comparison written with <=
IsRecentInclusive(elapsed) == elapsed <= HEARTBEAT_TIMEOUT_S

\* is_manager_online: `elapsed < self.HEARTBEAT_TIMEOUT_S`
IsRecent(elapsed) == elapsed < HEARTBEAT_TIMEOUT_S

\* is_manager_online(manager_id) evaluated in one piece at time t
IsManagerOnline(h, m, t) ==
  IF m \notin HbKeys(h) THEN FALSE ELSE IsRecent(t - HbGet(h, m))

\* entry = self._registry.get(actor_name)
LkGet ==
  /\ Recv("LookupActor")
  /\ IF req'.actor_name \in DOMAIN registry
     THEN /\ entry' = registry[req'.actor_name]
          /\ reply' = reply
          /\ srvpc' = "lk_in"
     ELSE /\ entry' = NoEntry
          /\ reply' = LookupResult(req'.actor_name, Null, FALSE)
          /\ srvpc' = "done"
  /\ UNCHANGED <<rtVars, cliVars, form, running, clock, mapVars, srvRef, swVars>>

\* is_manager_online: `if manager_id not in self._heartbeats: return False`
LkIn ==
  /\ srvpc = "lk_in"
  /\ IF entry.manager_id \notin HbKeys(heartbeats)
     THEN /\ reply' = LookupResult(req.actor_name, entry.endpoint, FALSE)
          /\ srvpc' = "done"
     ELSE /\ reply' = reply
          /\ srvpc' = "lk_read"
  /\ UNCHANGED <<rtVars, cliVars, form, running, clock, mapVars, req, entry, srvRef, swVars>>

\* is_manager_online: `time.monotonic() - self._heartbeats[manager_id]`, KeyError
\* when the monitor thread popped the key after the membership test
LkRead ==
  /\ srvpc = "lk_read"
  /\ IF entry.manager_id \in HbKeys(heartbeats)
     THEN /\ reply' = LookupResult(req.actor_name, entry.endpoint,
                                   IsRecent(clock - HbGet(heartbeats, entry.manager_id)))
          /\ srvpc' = "done"
          /\ UNCHANGED <<req, entry, srvRef>>
     ELSE Raise
  /\ UNCHANGED <<rtVars, cliVars, form, running, clock, mapVars, swVars>>

(* --- Heartbeat --- *)

\* a heartbeat that is recorded only for a manager without a record
RecordHeartbeatOnce(h, m, t) == IF m \in HbKeys(h) THEN h ELSE Append(h, <<m, t>>)

\* self._heartbeats[msg.manager_id] = time.monotonic()
RecordHeartbeat(h, m, t) == HbSet(h, m, t)

OnHeartbeat ==
  /\ Recv("Heartbeat")
  /\ heartbeats' = RecordHeartbeat(heartbeats, req'.manager_id, clock)
  /\ reply' = HeartbeatAck
  /\ srvpc' = "done"
  /\ UNCHANGED <<rtVars, cliVars, form, running, clock, registry, manager_actors, entry, srvRef,
                 swVars>>

(* --- requests that are not one of the four well-formed kinds --- *)

\* run_registry's `else:` branch: a warning and an error record as the reply
OnUnknown ==
  /\ srvpc = "idle"
  /\ form = "standalone"
  /\ req' = UnknownRequest
  /\ reply' = ErrorRecord(req'.message_type)
  /\ srvpc' = "done"
  /\ UNCHANGED <<rtVars, cliVars, form, running, clock, mapVars, entry, srvRef, swVars>>

\* msg_json[f] of a key the object lacks: KeyError
SubscriptRaises(r) == \E f \in RequiredFields(r.message_type) : r[f] = Missing

\* a request of a known type without a required key: the subscript raises
\* KeyError before the handler touches a map, and run_registry catches only
\* zmq.ZMQError
OnMissingField ==
  /\ srvpc = "idle"
  /\ form = "standalone"
  /\ \E r \in MalformedRequests :
        /\ SubscriptRaises(r)
        /\ Raise
  /\ UNCHANGED <<rtVars, cliVars, form, running, clock, mapVars, swVars>>

(* ---------------------------------------------------------------------- *)
(* The heartbeat-monitor thread                                            *)
(* ---------------------------------------------------------------------- *)

\* the thread runs while the process does
SweeperRuns == srvpc # "crashed"

\* `now - last_hb > self.HEARTBEAT_TIMEOUT_S`
IsStale(t, last_hb) == t - last_hb > HEARTBEAT_TIMEOUT_S

\* `while self._running: time.sleep(1.0)`, then _check_heartbeats starts:
\* now = time.monotonic(), stale_managers = [], iter(self._heartbeats.items())
SwWake ==
  /\ swpc = "sleep"
  /\ SweeperRuns
  /\ running
  /\ sleptFor >= HEARTBEAT_CHECK_INTERVAL_S
  /\ sleptFor' = 0
  /\ now' = clock
  /\ stale_managers' = <<>>
  /\ hbPos' = 1
  /\ hbUsed' = Len(heartbeats)
  /\ swpc' = "sw_scan"
  /\ UNCHANGED <<rtVars, cliVars, form, running, clock, mapVars, srvVars, swIdx, manager_id, actor_names,
                 setRemaining, setUsed, actor_name>>

\* an uncaught exception ends the monitor thread
SwDie ==
  /\ swpc' = "dead"
  /\ now' = 0
  /\ stale_managers' = <<>>
  /\ hbPos' = 1
  /\ hbUsed' = 0
  /\ swIdx' = 1
  /\ manager_id' = Null
  /\ actor_names' = {}
  /\ setRemaining' = {}
  /\ setUsed' = 0
  /\ actor_name' = Null
  /\ UNCHANGED sleptFor

\* one step of `for manager_id, last_hb in self._heartbeats.items()`:
\* RuntimeError if the dict changed size since the iterator was created
SwScan ==
  /\ swpc = "sw_scan"
  /\ SweeperRuns
  /\ IF Len(heartbeats) # hbUsed
     THEN SwDie
     ELSE IF hbPos > Len(heartbeats)
     THEN /\ swIdx' = 1
          /\ swpc' = "sw_loop"
          /\ hbPos' = 1
          /\ hbUsed' = 0
          /\ UNCHANGED <<now, stale_managers, manager_id, actor_names,
                         setRemaining, setUsed, actor_name, sleptFor>>
     ELSE /\ stale_managers' =
                IF IsStale(now, heartbeats[hbPos][2])
                THEN Append(stale_managers, heartbeats[hbPos][1])
                ELSE stale_managers
          /\ hbPos' = hbPos + 1
          /\ UNCHANGED <<swpc, now, hbUsed, swIdx, manager_id, actor_names,
                         setRemaining, setUsed, actor_name, sleptFor>>
  /\ UNCHANGED <<rtVars, cliVars, form, running, clock, mapVars, srvVars>>

\* self._manager_actors.pop(manager_id, set()): the value popped
PopActors(ma, m) == IF m \in DOMAIN ma THEN ma[m] ELSE {}

\* a pop that empties the whole reverse index
RemoveManagerClear(ma, m) == EmptyMap

\* self._manager_actors.pop(manager_id, set()): the dict that is left
RemoveManager(ma, m) == MapDel(ma, m)

\* a heartbeat record that is never dropped
DropHeartbeatKeep(h, m) == h

\* self._heartbeats.pop(manager_id, None)
DropHeartbeat(h, m) == HbPop(h, m)

\* one step of `for manager_id in stale_managers`: the loop ends, or
\* _unregister_manager(manager_id) is entered and pops the manager's actor set
SwLoop ==
  /\ swpc = "sw_loop"
  /\ SweeperRuns
  /\ IF swIdx > Len(stale_managers)
     THEN /\ swpc' = "sw_end"
          /\ UNCHANGED <<manager_id, actor_names, manager_actors, srvRef>>
     ELSE /\ manager_id' = stale_managers[swIdx]
          /\ actor_names' = PopActors(manager_actors, manager_id')
          /\ manager_actors' = RemoveManager(manager_actors, manager_id')
          /\ srvRef' = IF srvRef = "dict" /\ SrvRefManager = manager_id'
                       THEN "sweeper" ELSE srvRef
          /\ swpc' = "um_iter"
  /\ UNCHANGED <<rtVars, cliVars, form, running, clock, registry, heartbeats, srvOther, now, stale_managers,
                 hbPos, hbUsed, swIdx, setRemaining, setUsed, actor_name, sleptFor>>

\* iter(actor_names)
UmIter ==
  /\ swpc = "um_iter"
  /\ SweeperRuns
  /\ setRemaining' = actor_names
  /\ setUsed' = Cardinality(actor_names)
  /\ swpc' = "um_next"
  /\ UNCHANGED <<rtVars, cliVars, form, running, clock, mapVars, srvVars, now, stale_managers, hbPos,
                 hbUsed, swIdx, manager_id, actor_names, actor_name, sleptFor>>

\* one step of `for actor_name in actor_names` with its
\* `if actor_name in self._registry`: RuntimeError if the set changed size
UmNext ==
  /\ swpc = "um_next"
  /\ SweeperRuns
  /\ IF Cardinality(actor_names) # setUsed
     THEN SwDie /\ UNCHANGED srvRef
     ELSE IF setRemaining = {}
     THEN /\ swpc' = "um_hb"
          /\ srvRef' = IF srvRef = "sweeper" THEN "lost" ELSE srvRef
          /\ actor_names' = {}
          /\ setUsed' = 0
          /\ UNCHANGED <<now, stale_managers, hbPos, hbUsed, swIdx, manager_id,
                         setRemaining, actor_name, sleptFor>>
     ELSE /\ \E n \in setRemaining :
               /\ setRemaining' = setRemaining \ {n}
               /\ IF n \in DOMAIN registry
                  THEN actor_name' = n /\ swpc' = "um_del"
                  ELSE actor_name' = Null /\ swpc' = "um_next"
          /\ UNCHANGED <<srvRef, now, stale_managers, hbPos, hbUsed, swIdx, manager_id,
                         actor_names, setUsed, sleptFor>>
  /\ UNCHANGED <<rtVars, cliVars, form, running, clock, mapVars, srvOther>>

\* `del self._registry[actor_name]`: KeyError if the name was unregistered
\* after the membership test
UmDel ==
  /\ swpc = "um_del"
  /\ SweeperRuns
  /\ IF actor_name \in DOMAIN registry
     THEN /\ registry' = MapDel(registry, actor_name)
          /\ swpc' = "um_next"
          /\ actor_name' = Null
          /\ UNCHANGED <<now, stale_managers, hbPos, hbUsed, swIdx, manager_id,
                         actor_names, setRemaining, setUsed, sleptFor>>
     ELSE SwDie /\ UNCHANGED registry
  /\ UNCHANGED <<rtVars, cliVars, form, running, clock, manager_actors, heartbeats, srvVars>>

\* self._heartbeats.pop(manager_id, None); _unregister_manager returns
UmHb ==
  /\ swpc = "um_hb"
  /\ SweeperRuns
  /\ heartbeats' = DropHeartbeat(heartbeats, manager_id)
  /\ swIdx' = swIdx + 1
  /\ manager_id' = Null
  /\ swpc' = "sw_loop"
  /\ UNCHANGED <<rtVars, cliVars, form, running, clock, registry, manager_actors, srvVars, now,
                 stale_managers, hbPos, hbUsed, actor_names, setRemaining,
                 setUsed, actor_name, sleptFor>>

\* _check_heartbeats returns; the thread sleeps again
SwEnd ==
  /\ swpc = "sw_end"
  /\ SweeperRuns
  /\ swpc' = "sleep"
  /\ sleptFor' = 0
  /\ now' = 0
  /\ stale_managers' = <<>>
  /\ swIdx' = 1
  /\ UNCHANGED <<rtVars, cliVars, form, running, clock, mapVars, srvVars, hbPos, hbUsed, manager_id,
                 actor_names, setRemaining, setUsed, actor_name>>

(* ---------------------------------------------------------------------- *)
(* The RegistryClient                                                      *)
(* ---------------------------------------------------------------------- *)
(* One RegistryClient used by a caller thread and by the heartbeat threads *)
(* it starts.  The registry behind the socket answers a request with a     *)
(* reply of the matching type at any time, or never.  Time is counted by   *)
(* the timers of the blocking calls (sleep, recv, join), in seconds.       *)

\* the name and endpoint the caller registers and looks up
ClientName == "a"

ClientEndpoint == "e1"

Methods == {"register", "lookup", "lookup_allow_offline"}

\* the request a thread sends through _send_recv
MessageTypeOf(t, c) ==
  IF t \in HeartbeatThreads THEN "Heartbeat"
  ELSE IF c = "register" THEN "RegisterActor" ELSE "LookupActor"

\* what the registry can answer to a request of type mt
RepliesFor(mt) ==
  CASE mt = "RegisterActor" ->
         {RegistrationOk(ClientName),
          RegistrationFailed(ClientName, "Name already registered")}
    [] mt = "LookupActor" ->
         {LookupResult(ClientName, Null, FALSE),
          LookupResult(ClientName, ClientEndpoint, FALSE),
          LookupResult(ClientName, ClientEndpoint, TRUE)}
    [] mt = "Heartbeat" -> {HeartbeatAck}
    [] OTHER -> {}

\* a register that takes every reply for a success
ClientRegisterAlwaysOk(rep) == Outcome("return", Null, FALSE, Null)

\* RegistryClient.register after _send_recv returned `rep`
ClientRegister(rep) ==
  IF rep.message_type = "RegistrationOk"
  THEN Outcome("return", Null, FALSE, Null)
  ELSE IF rep.message_type = "RegistrationFailed"
  THEN Outcome("RegistrationFailedError", Null, FALSE, rep.reason)
  ELSE Outcome("RegistryError", Null, FALSE, Null)

\* a lookup that does not look at the online flag
ClientLookupLenient(rep) ==
  IF rep.message_type = "LookupResult"
  THEN IF rep.endpoint = Null THEN Outcome("ActorNotFoundError", Null, FALSE, Null)
       ELSE Outcome("return", rep.endpoint, TRUE, Null)
  ELSE Outcome("RegistryError", Null, FALSE, Null)

\* RegistryClient.lookup after _send_recv returned `rep`
ClientLookup(rep) ==
  IF rep.message_type = "LookupResult"
  THEN IF rep.endpoint = Null THEN Outcome("ActorNotFoundError", Null, FALSE, Null)
       ELSE IF ~rep.online THEN Outcome("ActorOfflineError", Null, FALSE, Null)
       ELSE Outcome("return", rep.endpoint, TRUE, Null)
  ELSE Outcome("RegistryError", Null, FALSE, Null)

\* RegistryClient.lookup_allow_offline after _send_recv returned `rep`
ClientLookupAllowOffline(rep) ==
  IF rep.message_type = "LookupResult"
  THEN IF rep.endpoint = Null THEN Outcome("ActorNotFoundError", Null, FALSE, Null)
       ELSE Outcome("return", rep.endpoint, rep.online, Null)
  ELSE Outcome("RegistryError", Null, FALSE, Null)

\* what method c returns or raises when _send_recv returned rep (err = Null)
\* or raised err: zmq.Again becomes TimeoutError, any other ZMQError is not
\* caught
ClientResult(c, rep, err) ==
  IF err = "Again" THEN Outcome("TimeoutError", Null, FALSE, Null)
  ELSE IF err # Null THEN Outcome("ZMQError", Null, FALSE, Null)
  ELSE IF c = "register" THEN ClientRegister(rep)
  ELSE IF c = "lookup" THEN ClientLookup(rep)
  ELSE ClientLookupAllowOffline(rep)

\* a lock that never holds anybody back
LockFreeAlways(l) == TRUE

\* `with self._socket_lock`: the lock can be taken
LockFree(l) == l = Null

\* a REQ socket sends only when it is not waiting for a reply (otherwise
\* send raises ZMQError, EFSM)
ReqCanSend(sk) == sk = "ready"

\* a heartbeat thread that gives up after a failed attempt
AfterFailedAttemptExit == "exited"

\* _heartbeat_loop: `except Exception: pass`, then time.sleep
AfterFailedAttempt == "sleep"

\* thread t leaves _send_recv with reply rep or exception err
Leave(t, rep, err) ==
  IF t \in HeartbeatThreads
  THEN /\ pc' = [pc EXCEPT ![t] = IF err = Null THEN "sleep" ELSE AfterFailedAttempt]
       /\ timer' = [timer EXCEPT ![t] = IF pc'[t] = "sleep" THEN HEARTBEAT_INTERVAL_S ELSE 0]
       /\ last_attempt' = [last_attempt EXCEPT ![t] = IF err = Null THEN "ok" ELSE "failed"]
       /\ UNCHANGED <<call, result>>
  ELSE /\ pc' = [pc EXCEPT ![t] = "idle"]
       /\ timer' = [timer EXCEPT ![t] = 0]
       /\ result' = ClientResult(call, rep, err)
       /\ UNCHANGED <<call, last_attempt>>

\* start_heartbeat()
StartHeartbeat ==
  /\ pc["main"] = "idle"
  /\ \E t \in HeartbeatThreads : pc[t] = "unborn"
  /\ call' = "start_heartbeat"
  /\ result' = NoOutcome
  /\ IF client_running
     THEN UNCHANGED <<client_running, heartbeat_thread, pc>>
     ELSE /\ client_running' = TRUE
          /\ heartbeat_thread' = CHOOSE t \in HeartbeatThreads : pc[t] = "unborn"
          /\ pc' = [pc EXCEPT ![heartbeat_thread'] = "while"]
  /\ UNCHANGED <<rtVars, regVars, socket, socket_lock, in_flight, sent, wire_reply, timer,
                 last_attempt>>

\* stop_heartbeat(), alone or as the first statement of close(): the flag is
\* cleared and the thread, if there is one, is joined for at most 3 s
StopHeartbeat ==
  /\ pc["main"] = "idle"
  /\ \E c \in {"stop_heartbeat", "close"} :
        /\ call' = c
        /\ IF heartbeat_thread # Null
           THEN /\ pc' = [pc EXCEPT !["main"] = "join"]
                /\ timer' = [timer EXCEPT !["main"] = JOIN_TIMEOUT_S]
           ELSE /\ pc' = [pc EXCEPT !["main"] = IF c = "close" THEN "close_lock" ELSE "idle"]
                /\ UNCHANGED timer
  /\ result' = NoOutcome
  /\ client_running' = FALSE
  /\ UNCHANGED <<rtVars, regVars, heartbeat_thread, socket, socket_lock, in_flight, sent,
                 wire_reply, last_attempt>>

\* join returns: the thread ended, or the 3 s are over
Join ==
  /\ pc["main"] = "join"
  /\ pc[heartbeat_thread] = "exited" \/ timer["main"] = 0
  /\ heartbeat_thread' = Null
  /\ pc' = [pc EXCEPT !["main"] = IF call = "close" THEN "close_lock" ELSE "idle"]
  /\ timer' = [timer EXCEPT !["main"] = 0]
  /\ UNCHANGED <<rtVars, regVars, client_running, socket, socket_lock, in_flight, sent,
                 wire_reply, last_attempt, call, result>>

\* close(), after stop_heartbeat: under the lock the socket is closed and
\* forgotten
CloseSocket ==
  /\ pc["main"] = "close_lock"
  /\ LockFree(socket_lock)
  /\ socket' = "none"
  /\ in_flight' = 0
  /\ sent' = Null
  /\ wire_reply' = NoReply
  /\ pc' = [pc EXCEPT !["main"] = "idle"]
  /\ UNCHANGED <<rtVars, regVars, client_running, heartbeat_thread, socket_lock, timer,
                 last_attempt, call, result>>

\* the caller enters register, lookup or lookup_allow_offline
CallMethod ==
  /\ pc["main"] = "idle"
  /\ call' \in Methods
  /\ result' = NoOutcome
  /\ pc' = [pc EXCEPT !["main"] = "lock"]
  /\ UNCHANGED <<rtVars, regVars, client_running, heartbeat_thread, socket, socket_lock,
                 in_flight, sent, wire_reply, timer, last_attempt>>

\* _heartbeat_loop: `while self._running`
HbWhile ==
  \E t \in HeartbeatThreads :
    /\ pc[t] = "while"
    /\ pc' = [pc EXCEPT ![t] = IF client_running THEN "lock" ELSE "exited"]
    /\ UNCHANGED <<rtVars, regVars, client_running, heartbeat_thread, socket, socket_lock,
                   in_flight, sent, wire_reply, timer, last_attempt, call, result>>

\* _heartbeat_loop: time.sleep(HEARTBEAT_INTERVAL_S) is over
HbWake ==
  \E t \in HeartbeatThreads :
    /\ pc[t] = "sleep"
    /\ timer[t] = 0
    /\ pc' = [pc EXCEPT ![t] = "while"]
    /\ UNCHANGED <<rtVars, regVars, client_running, heartbeat_thread, socket, socket_lock,
                   in_flight, sent, wire_reply, timer, last_attempt, call, result>>

\* _send_recv: the lock is taken and _get_socket creates the socket if
\* there is none
Acquire ==
  \E t \in Threads :
    /\ pc[t] = "lock"
    /\ LockFree(socket_lock)
    /\ socket_lock' = t
    /\ socket' = IF socket = "none" THEN "ready" ELSE socket
    /\ pc' = [pc EXCEPT ![t] = "send"]
    /\ UNCHANGED <<rtVars, regVars, client_running, heartbeat_thread, in_flight, sent,
                   wire_reply, timer, last_attempt, call, result>>

\* _send_recv: socket.send_json(msg)
SocketSend ==
  \E t \in Threads :
    /\ pc[t] = "send"
    /\ IF ReqCanSend(socket)
       THEN /\ socket' = "awaiting"
            /\ in_flight' = in_flight + 1
            /\ sent' = MessageTypeOf(t, call)
            /\ pc' = [pc EXCEPT ![t] = "recv"]
            /\ timer' = [timer EXCEPT ![t] = RCVTIMEO_S]
            /\ UNCHANGED <<socket_lock, last_attempt, call, result>>
       ELSE /\ socket_lock' = Null
            /\ Leave(t, NoReply, "EFSM")
            /\ UNCHANGED <<socket, in_flight, sent>>
    /\ UNCHANGED <<rtVars, regVars, client_running, heartbeat_thread, wire_reply>>

\* the registry's reply to the request in flight arrives
RegistryAnswers ==
  /\ socket = "awaiting"
  /\ in_flight > 0
  /\ wire_reply = NoReply
  /\ wire_reply' \in RepliesFor(sent)
  /\ UNCHANGED <<rtVars, regVars, client_running, heartbeat_thread, socket, socket_lock,
                 in_flight, sent, pc, timer, last_attempt, call, result>>

\* _send_recv: socket.recv_json() returns the reply
SocketRecv ==
  \E t \in Threads :
    /\ pc[t] = "recv"
    /\ wire_reply # NoReply
    /\ socket' = "ready"
    /\ in_flight' = in_flight - 1
    /\ sent' = Null
    /\ wire_reply' = NoReply
    /\ socket_lock' = Null
    /\ Leave(t, wire_reply, Null)
    /\ UNCHANGED <<rtVars, regVars, client_running, heartbeat_thread>>

\* _send_recv: socket.recv_json() raises zmq.Again after RCVTIMEO
RecvTimeout ==
  \E t \in Threads :
    /\ pc[t] = "recv"
    /\ wire_reply = NoReply
    /\ timer[t] = 0
    /\ socket_lock' = Null
    /\ Leave(t, NoReply, "Again")
    /\ UNCHANGED <<rtVars, regVars, client_running, heartbeat_thread, socket, in_flight, sent,
                   wire_reply>>

\* thread t cannot move before time passes or another thread acts
Blocked(t) ==
  \/ pc[t] \in {"idle", "unborn", "exited"}
  \/ pc[t] = "sleep" /\ timer[t] > 0
  \/ pc[t] = "join" /\ timer[t] > 0 /\ pc[heartbeat_thread] # "exited"
  \/ pc[t] = "recv" /\ timer[t] > 0 /\ wire_reply = NoReply
  \/ pc[t] \in {"lock", "close_lock"} /\ ~LockFree(socket_lock)

\* one second passes for the threads that sleep, wait for a reply or join
ClientTick ==
  /\ \A t \in Threads : Blocked(t)
  /\ \E t \in Threads : timer[t] > 0
  /\ timer' = [t \in Threads |-> IF timer[t] > 0 THEN timer[t] - 1 ELSE 0]
  /\ UNCHANGED <<rtVars, regVars, client_running, heartbeat_thread, socket, socket_lock,
                 in_flight, sent, wire_reply, pc, last_attempt, call, result>>

ClientNext ==
  \/ StartHeartbeat \/ StopHeartbeat \/ Join \/ CloseSocket \/ CallMethod
  \/ HbWhile \/ HbWake
  \/ Acquire \/ SocketSend \/ RegistryAnswers \/ SocketRecv \/ RecvTimeout
  \/ ClientTick

\* the client against a registry process seen only through its replies
ClientSpecInit == Init /\ form = "standalone"

ClientSpec == ClientSpecInit /\ [][ClientNext]_vars

(* ---------------------------------------------------------------------- *)
(* Specification                                                           *)
(* ---------------------------------------------------------------------- *)
SrvStep ==
  \/ Finish
  \/ RegCheck \/ RegMaCheck \/ RegMaGet \/ RegMaAdd \/ RegHb
  \/ UnPop \/ UnCheck \/ UnGet \/ UnDiscard
  \/ LkGet \/ LkIn \/ LkRead
  \/ OnHeartbeat
  \/ OnUnknown \/ OnMissingField

SwStep ==
  \/ SwWake \/ SwScan \/ SwLoop \/ UmIter \/ UmNext \/ UmDel \/ UmHb \/ SwEnd

Next == RegistryInit \/ Tick \/ SrvStep \/ SwStep

Spec == Init /\ [][Next]_vars

\* The same program when a handler and a sweep never overlap (what a caller
\* of one handler or one _check_heartbeats sees): a thread moves only while
\* the other is between two pieces of work.
SrvResting == srvpc \in {"unstarted", "idle", "crashed"}

SwResting == swpc \in {"unstarted", "sleep", "dead"}

SeqFinish == SwResting /\ Finish
SeqRegCheck == SwResting /\ RegCheck
SeqRegMaCheck == SwResting /\ RegMaCheck
SeqRegMaGet == SwResting /\ RegMaGet
SeqRegMaAdd == SwResting /\ RegMaAdd
SeqRegHb == SwResting /\ RegHb
SeqUnPop == SwResting /\ UnPop
SeqUnCheck == SwResting /\ UnCheck
SeqUnGet == SwResting /\ UnGet
SeqUnDiscard == SwResting /\ UnDiscard
SeqLkGet == SwResting /\ LkGet
SeqLkIn == SwResting /\ LkIn
SeqLkRead == SwResting /\ LkRead
SeqOnHeartbeat == SwResting /\ OnHeartbeat
SeqOnUnknown == SwResting /\ OnUnknown
SeqOnMissingField == SwResting /\ OnMissingField
SeqSwWake == SrvResting /\ SwWake
SeqSwScan == SrvResting /\ SwScan
SeqSwLoop == SrvResting /\ SwLoop
SeqUmIter == SrvResting /\ UmIter
SeqUmNext == SrvResting /\ UmNext
SeqUmDel == SrvResting /\ UmDel
SeqUmHb == SrvResting /\ UmHb
SeqSwEnd == SrvResting /\ SwEnd

NextSeq ==
  \/ RegistryInit \/ Tick
  \/ SeqFinish
  \/ SeqRegCheck \/ SeqRegMaCheck \/ SeqRegMaGet \/ SeqRegMaAdd \/ SeqRegHb
  \/ SeqUnPop \/ SeqUnCheck \/ SeqUnGet \/ SeqUnDiscard
  \/ SeqLkGet \/ SeqLkIn \/ SeqLkRead
  \/ SeqOnHeartbeat
  \/ SeqOnUnknown \/ SeqOnMissingField
  \/ SeqSwWake \/ SeqSwScan \/ SeqSwLoop \/ SeqUmIter \/ SeqUmNext \/ SeqUmDel
  \/ SeqUmHb \/ SeqSwEnd

SeqSpec == Init /\ [][NextSeq]_vars

(* The registry with a client's synchronous call around each request: the  *)
(* caller gets the reply that run_registry sends and turns it into the      *)
(* method's result before the next request is made.                         *)

\* the client methods that send a request of type mt and look at the reply
MethodsFor(mt) ==
  CASE mt = "RegisterActor" -> {"register"}
    [] mt = "LookupActor" -> {"lookup", "lookup_allow_offline"}
    [] OTHER -> {}

\* the request being handled came from a method whose caller waits for the result
CallerWaits == form = "standalone" /\ MethodsFor(req.message_type) # {}

\* the reply reaches the caller: the method returns or raises
ClientReturn ==
  /\ srvpc = "done"
  /\ CallerWaits
  /\ result = NoOutcome
  /\ call' \in MethodsFor(req.message_type)
  /\ result' = ClientResult(call', reply, Null)
  /\ UNCHANGED <<rtVars, regVars, client_running, heartbeat_thread, socket, socket_lock,
                 in_flight, sent, wire_reply, pc, timer, last_attempt>>

\* the registry process is gone: no reply arrives before the receive
\* deadline and recv raises zmq.Again
ClientTimeout ==
  /\ srvpc = FaultStandalone
  /\ result = NoOutcome
  /\ call' \in Methods
  /\ result' = ClientResult(call', NoReply, "Again")
  /\ UNCHANGED <<rtVars, regVars, client_running, heartbeat_thread, socket, socket_lock,
                 in_flight, sent, wire_reply, pc, timer, last_attempt>>

\* the caller goes on after the call
ClientDone ==
  /\ SrvResting
  /\ result # NoOutcome
  /\ call' = Null
  /\ result' = NoOutcome
  /\ UNCHANGED <<rtVars, regVars, client_running, heartbeat_thread, socket, socket_lock,
                 in_flight, sent, wire_reply, pc, timer, last_attempt>>

RpcFinish == SeqFinish /\ (CallerWaits => result # NoOutcome)
RpcRegCheck == SeqRegCheck /\ result = NoOutcome
RpcUnPop == SeqUnPop /\ result = NoOutcome
RpcLkGet == SeqLkGet /\ result = NoOutcome
RpcOnHeartbeat == SeqOnHeartbeat /\ result = NoOutcome
RpcOnUnknown == SeqOnUnknown /\ result = NoOutcome
RpcOnMissingField == SeqOnMissingField /\ result = NoOutcome

NextRpc ==
  \/ RegistryInit \/ Tick
  \/ RpcFinish
  \/ RpcRegCheck \/ SeqRegMaCheck \/ SeqRegMaGet \/ SeqRegMaAdd \/ SeqRegHb
  \/ RpcUnPop \/ SeqUnCheck \/ SeqUnGet \/ SeqUnDiscard
  \/ RpcLkGet \/ SeqLkIn \/ SeqLkRead
  \/ RpcOnHeartbeat
  \/ RpcOnUnknown \/ RpcOnMissingField
  \/ SeqSwWake \/ SeqSwScan \/ SeqSwLoop \/ SeqUmIter \/ SeqUmNext \/ SeqUmDel
  \/ SeqUmHb \/ SeqSwEnd
  \/ ClientReturn \/ ClientTimeout \/ ClientDone

RpcSpec == Init /\ [][NextRpc]_vars

(* The registry, its sweeper and the heartbeat thread of one manager's      *)
(* client, second by second.  The registry is up before the client starts   *)
(* its heartbeat thread and answers promptly: a request of the client is    *)
(* answered within PromptSeconds.  Other managers' requests arrive at any   *)
(* time.                                                                    *)

\* the manager the client belongs to
ClientManager == "m1"

\* the longest a request of the client waits for its reply
PromptSeconds == 1

\* requests other than the client's heartbeats: the client's manager
\* registers its actor once its heartbeat runs, another manager registers
\* one and stays silent, and anybody looks the client's actor up
HbRequests ==
  {RegisterActor(ClientManager, ClientName, ManagerEndpoint[ClientManager]),
   RegisterActor("m2", "b", ManagerEndpoint["m2"]),
   LookupActor(ClientName)}

\* the manager starts its heartbeat thread as soon as the registry is up
HbStartHeartbeat == StartHeartbeat /\ srvpc # "unstarted" /\ ~client_running /\ clock = 0

HbRegCheck ==
  /\ RegCheck
  /\ req' \in HbRequests
  /\ req'.manager_id = ClientManager => client_running

HbLkGet == LkGet /\ req' \in HbRequests

\* the registry receives the heartbeat the client has sent
HbOnHeartbeat ==
  /\ OnHeartbeat
  /\ req' = Heartbeat(ClientManager)
  /\ sent = "Heartbeat"
  /\ in_flight > 0
  /\ wire_reply = NoReply

\* run_registry's socket.send: the reply is on its way to the client
HbDeliver ==
  /\ srvpc = "done"
  /\ req.message_type = "Heartbeat"
  /\ in_flight > 0
  /\ wire_reply = NoReply
  /\ wire_reply' = reply
  /\ UNCHANGED <<rtVars, regVars, client_running, heartbeat_thread, socket, socket_lock,
                 in_flight, sent, pc, timer, last_attempt, call, result>>

\* the registry goes back to waiting once the reply is out
HbFinish == Finish /\ (req.message_type = "Heartbeat" => wire_reply # NoReply)

\* the client receives the reply that the registry has sent
HbSocketRecv == SocketRecv /\ srvpc # "done"

\* one second passes, for the registry and for the client whose heartbeat
\* thread runs; not while a thread of the client can move, and not beyond
\* PromptSeconds after a request of the client was sent
HbTick ==
  /\ clock + 1 <= MaxClock
  /\ client_running
  /\ \A t \in Threads : Blocked(t)
  /\ \A t \in Threads : pc[t] = "recv" => RCVTIMEO_S - timer[t] < PromptSeconds
  /\ clock' = clock + 1
  /\ sleptFor' = IF swpc = "sleep"
                 THEN Min(sleptFor + 1, HEARTBEAT_CHECK_INTERVAL_S)
                 ELSE sleptFor
  /\ timer' = [t \in Threads |-> IF timer[t] > 0 THEN timer[t] - 1 ELSE 0]
  /\ UNCHANGED <<rtVars, form, running, mapVars, srvVars, swpc, now, stale_managers, hbPos,
                 hbUsed, swIdx, manager_id, actor_names, setRemaining, setUsed,
                 actor_name, client_running, heartbeat_thread, socket, socket_lock,
                 in_flight, sent, wire_reply, pc, last_attempt, call, result>>

NextHb ==
  \/ RegistryInit \/ HbTick
  \/ HbFinish
  \/ HbRegCheck \/ RegMaCheck \/ RegMaGet \/ RegMaAdd \/ RegHb
  \/ HbLkGet \/ LkIn \/ LkRead
  \/ HbOnHeartbeat \/ HbDeliver
  \/ SwWake \/ SwScan \/ SwLoop \/ UmIter \/ UmNext \/ UmDel \/ UmHb \/ SwEnd
  \/ HbStartHeartbeat \/ HbWhile \/ HbWake \/ Acquire \/ SocketSend \/ HbSocketRecv

HbSpecInit == Init /\ form = "standalone"

HbSpec == HbSpecInit /\ [][NextHb]_vars

(* ---------------------------------------------------------------------- *)
(* The registry protocol messages as objects                               *)
(*                                                                         *)
(* A message object is a record of its class and its dataclass fields; a   *)
(* dict is a function from its keys to their values.                       *)
(* ---------------------------------------------------------------------- *)
Reasons == {"Name already registered", "invalid endpoint"}

\* what int(time.time() * 1000) can give
WallClockMs == {1000, 2000}

\* Heartbeat.__post_init__: a timestamp of 0 becomes the wall clock
PostInit(ts, wall) == IF ts = 0 THEN wall ELSE ts

\* the objects the constructors of the eight classes build
MessageObjects ==
  {[class |-> "RegisterActor", manager_id |-> m, actor_name |-> n, actor_endpoint |-> e] :
      m \in Managers, n \in Names, e \in Endpoints}
    \cup {[class |-> "UnregisterActor", actor_name |-> n] : n \in Names}
    \cup {[class |-> "LookupActor", actor_name |-> n] : n \in Names}
    \cup {[class |-> "Heartbeat", manager_id |-> m, timestamp_ms |-> PostInit(ts, w)] :
            m \in Managers, ts \in {0, 7}, w \in WallClockMs}
    \cup {[class |-> "RegistrationOk", actor_name |-> n] : n \in Names}
    \cup {[class |-> "RegistrationFailed", actor_name |-> n, reason |-> r] :
            n \in Names, r \in Reasons}
    \cup {[class |-> "LookupResult", actor_name |-> n, endpoint |-> e, online |-> o] :
            n \in Names, e \in Endpoints \cup {Null}, o \in BOOLEAN}
    \cup {[class |-> "HeartbeatAck"]}

\* a dict literal: the key/value pairs of `ps`, a set of <<key, value>>
Dict(ps) == [k \in {p[1] : p \in ps} |-> (CHOOSE p \in ps : p[1] = k)[2]]

\* a to_dict that forgets the timestamp of a Heartbeat
ToDictNoTimestamp(o) ==
  CASE o.class = "RegisterActor" ->
         Dict({<<"message_type", "RegisterActor">>, <<"manager_id", o.manager_id>>,
               <<"actor_name", o.actor_name>>, <<"actor_endpoint", o.actor_endpoint>>})
    [] o.class = "UnregisterActor" ->
         Dict({<<"message_type", "UnregisterActor">>, <<"actor_name", o.actor_name>>})
    [] o.class = "RegistrationOk" ->
         Dict({<<"message_type", "RegistrationOk">>, <<"actor_name", o.actor_name>>})
    [] o.class = "RegistrationFailed" ->
         Dict({<<"message_type", "RegistrationFailed">>, <<"actor_name", o.actor_name>>,
               <<"reason", o.reason>>})
    [] o.class = "LookupActor" ->
         Dict({<<"message_type", "LookupActor">>, <<"actor_name", o.actor_name>>})
    [] o.class = "LookupResult" ->
         Dict({<<"message_type", "LookupResult">>, <<"actor_name", o.actor_name>>,
               <<"endpoint", o.endpoint>>, <<"online", o.online>>})
    [] o.class = "Heartbeat" ->
         Dict({<<"message_type", "Heartbeat">>, <<"manager_id", o.manager_id>>})
    [] o.class = "HeartbeatAck" ->
         Dict({<<"message_type", "HeartbeatAck">>})

\* to_dict() of each of the eight classes
ToDict(o) ==
  CASE o.class = "RegisterActor" ->
         Dict({<<"message_type", "RegisterActor">>, <<"manager_id", o.manager_id>>,
               <<"actor_name", o.actor_name>>, <<"actor_endpoint", o.actor_endpoint>>})
    [] o.class = "UnregisterActor" ->
         Dict({<<"message_type", "UnregisterActor">>, <<"actor_name", o.actor_name>>})
    [] o.class = "RegistrationOk" ->
         Dict({<<"message_type", "RegistrationOk">>, <<"actor_name", o.actor_name>>})
    [] o.class = "RegistrationFailed" ->
         Dict({<<"message_type", "RegistrationFailed">>, <<"actor_name", o.actor_name>>,
               <<"reason", o.reason>>})
    [] o.class = "LookupActor" ->
         Dict({<<"message_type", "LookupActor">>, <<"actor_name", o.actor_name>>})
    [] o.class = "LookupResult" ->
         Dict({<<"message_type", "LookupResult">>, <<"actor_name", o.actor_name>>,
               <<"endpoint", o.endpoint>>, <<"online", o.online>>})
    [] o.class = "Heartbeat" ->
         Dict({<<"message_type", "Heartbeat">>, <<"manager_id", o.manager_id>>,
               <<"timestamp_ms", o.timestamp_ms>>})
    [] o.class = "HeartbeatAck" ->
         Dict({<<"message_type", "HeartbeatAck">>})

\* a message object is built; the dict of an earlier one may still be held
Construct ==
  /\ msg_obj' \in MessageObjects
  /\ msg_obj' # msg_obj
  /\ UNCHANGED <<actVars, regVars, cliVars, twinVars, lifeVars, wire_dict>>

\* msg.to_dict()
CallToDict ==
  /\ msg_obj # NoMessage
  /\ wire_dict' = ToDict(msg_obj)
  /\ UNCHANGED <<actVars, regVars, cliVars, twinVars, lifeVars, msg_obj>>

NextMsg == Construct \/ CallToDict

MsgSpec == Init /\ [][NextMsg]_vars

(* ---------------------------------------------------------------------- *)
(* The two forms of the registry side by side                              *)
(*                                                                         *)
(* A second GlobalRegistry, `twin`, is driven through its actor handlers   *)
(* (_on_register, _on_unregister, _on_lookup, _on_heartbeat), each run in  *)
(* one piece, while run_registry serves the same request at the same time  *)
(* of the clock.  No monitor thread runs in either.                        *)
(* ---------------------------------------------------------------------- *)
RegistryState(reg, ma, hb, rep) ==
  [registry |-> reg, manager_actors |-> ma, heartbeats |-> hb, reply |-> rep]

\* _on_register(msg, ctx) at time t
OnRegisterActor(st, r, t) ==
  IF r.actor_name \in DOMAIN st.registry
  THEN [st EXCEPT !.reply = RegistrationFailed(r.actor_name, "Name already registered")]
  ELSE RegistryState(
         MapSet(st.registry, r.actor_name, ActorEntry(r.actor_endpoint, r.manager_id)),
         MapSet(st.manager_actors, r.manager_id,
                (IF r.manager_id \in DOMAIN st.manager_actors
                 THEN st.manager_actors[r.manager_id] ELSE {}) \cup {r.actor_name}),
         HbSet(st.heartbeats, r.manager_id, t),
         RegistrationOk(r.actor_name))

\* _on_unregister(msg, ctx): no ctx.reply on either path
OnUnregisterActor(st, r) ==
  IF r.actor_name \notin DOMAIN st.registry
  THEN [st EXCEPT !.reply = NoReply]
  ELSE LET e == st.registry[r.actor_name]
       IN RegistryState(
            MapDel(st.registry, r.actor_name),
            IF e.manager_id \in DOMAIN st.manager_actors
            THEN MapSet(st.manager_actors, e.manager_id,
                        st.manager_actors[e.manager_id] \ {r.actor_name})
            ELSE st.manager_actors,
            st.heartbeats,
            NoReply)

\* _on_lookup(msg, ctx) at time t
OnLookupActor(st, r, t) ==
  IF r.actor_name \notin DOMAIN st.registry
  THEN [st EXCEPT !.reply = LookupResult(r.actor_name, Null, FALSE)]
  ELSE LET e == st.registry[r.actor_name]
       IN [st EXCEPT !.reply = LookupResult(r.actor_name, e.endpoint,
                                            IsManagerOnline(st.heartbeats, e.manager_id, t))]

\* _on_heartbeat(msg, ctx) at time t
OnHeartbeatMsg(st, r, t) ==
  [st EXCEPT !.heartbeats = HbSet(st.heartbeats, r.manager_id, t), !.reply = HeartbeatAck]

\* the handler the actor form dispatches request r to
ActorHandle(st, r, t) ==
  CASE r.message_type = "RegisterActor" -> OnRegisterActor(st, r, t)
    [] r.message_type = "UnregisterActor" -> OnUnregisterActor(st, r)
    [] r.message_type = "LookupActor" -> OnLookupActor(st, r, t)
    [] r.message_type = "Heartbeat" -> OnHeartbeatMsg(st, r, t)

\* the next request reaches the actor form, which handles it
TwinHandle ==
  /\ srvpc = "idle"
  /\ twin_req = NoRequest
  /\ \E r \in Requests :
        /\ twin_req' = r
        /\ twin' = ActorHandle(twin, r, clock)
  /\ UNCHANGED <<actVars, regVars, cliVars, codecVars, lifeVars>>

\* run_registry has handled the same request: both results are there
TwinDone ==
  /\ srvpc = "done"
  /\ twin_req = req
  /\ twin_req' = NoRequest
  /\ UNCHANGED <<actVars, regVars, cliVars, codecVars, lifeVars, twin>>

EqRegCheck == SeqRegCheck /\ req' = twin_req
EqUnPop == SeqUnPop /\ req' = twin_req
EqLkGet == SeqLkGet /\ req' = twin_req
EqOnHeartbeat == SeqOnHeartbeat /\ req' = twin_req
EqFinish == SeqFinish /\ twin_req = NoRequest

\* time passes between two requests
EqTick == Tick /\ twin_req = NoRequest /\ srvpc \in {"unstarted", "idle"}

NextEq ==
  \/ RegistryInit \/ EqTick
  \/ TwinHandle \/ TwinDone \/ EqFinish
  \/ EqRegCheck \/ SeqRegMaCheck \/ SeqRegMaGet \/ SeqRegMaAdd \/ SeqRegHb
  \/ EqUnPop \/ SeqUnCheck \/ SeqUnGet \/ SeqUnDiscard
  \/ EqLkGet \/ SeqLkIn \/ SeqLkRead
  \/ EqOnHeartbeat

EqSpecInit == Init /\ form = "standalone"

EqSpec == EqSpecInit /\ [][NextEq]_vars

(* ---------------------------------------------------------------------- *)
(* The life cycle of a GlobalRegistry object                               *)
(*                                                                         *)
(* One caller runs init() and end() in any order; every init() starts a    *)
(* monitor thread.  Requests are handled between the sweeps, each handler   *)
(* and each _check_heartbeats in one piece.  Time is counted in seconds.    *)
(* ---------------------------------------------------------------------- *)

\* GlobalRegistry.end: self._monitor_thread.join(timeout=2.0)
MONITOR_JOIN_TIMEOUT_S == 2

\* the managers _check_heartbeats finds stale at time t, in dict order
StaleManagers(hb, t) ==
  LET stale == SelectSeq(hb, LAMBDA p : IsStale(t, p[2]))
  IN [i \in 1..Len(stale) |-> stale[i][1]]

\* _unregister_manager(m), alone
UnregisterManager(st, m) ==
  LET names == PopActors(st.manager_actors, m)
  IN RegistryState(
       [n \in DOMAIN st.registry \ names |-> st.registry[n]],
       RemoveManager(st.manager_actors, m),
       HbPop(st.heartbeats, m),
       st.reply)

\* `for manager_id in stale_managers: self._unregister_manager(manager_id)`
RECURSIVE UnregisterManagers(_, _)
UnregisterManagers(st, ms) ==
  IF ms = <<>> THEN st
  ELSE UnregisterManagers(UnregisterManager(st, Head(ms)), Tail(ms))

\* _check_heartbeats() at time t, alone
CheckHeartbeats(st, t) == UnregisterManagers(st, StaleManagers(st.heartbeats, t))

\* the monitor threads that were started and have not ended
AliveMonitors == {s \in MonitorThreads : monpc[s] \notin {"unborn", "exited"}}

\* GlobalRegistry.init(): _running is set and a new monitor thread is started
LifeInit ==
  /\ lifepc = "idle"
  /\ \E s \in MonitorThreads : monpc[s] = "unborn"
  /\ lifecall' = "init"
  /\ running' = TRUE
  /\ monitor_thread' = CHOOSE s \in MonitorThreads : monpc[s] = "unborn"
  /\ monpc' = [monpc EXCEPT ![monitor_thread'] = "while"]
  /\ UNCHANGED <<actVars, cliVars, codecVars, twinVars, form, clock, mapVars, srvVars, swVars,
                 montimer, lifepc, jointimer>>

\* GlobalRegistry.end(): _running is cleared and the thread _monitor_thread
\* refers to, if any, is joined for at most 2 s
LifeEnd ==
  /\ lifepc = "idle"
  /\ lifecall' = "end"
  /\ running' = FALSE
  /\ IF monitor_thread # Null
     THEN /\ lifepc' = "join"
          /\ jointimer' = MONITOR_JOIN_TIMEOUT_S
     ELSE UNCHANGED <<lifepc, jointimer>>
  /\ UNCHANGED <<actVars, cliVars, codecVars, twinVars, form, clock, mapVars, srvVars, swVars,
                 monitor_thread, monpc, montimer>>

\* join returns: the thread has ended or the 2 s are over; end() returns
LifeJoin ==
  /\ lifepc = "join"
  /\ monpc[monitor_thread] = "exited" \/ jointimer = 0
  /\ lifepc' = "idle"
  /\ jointimer' = 0
  /\ UNCHANGED <<actVars, regVars, cliVars, codecVars, twinVars, monitor_thread, monpc, montimer,
                 lifecall>>

\* _heartbeat_monitor: `while self._running`, then time.sleep starts
MonWhile ==
  \E s \in MonitorThreads :
    /\ monpc[s] = "while"
    /\ monpc' = [monpc EXCEPT ![s] = IF running THEN "sleep" ELSE "exited"]
    /\ montimer' = [montimer EXCEPT ![s] = IF running THEN HEARTBEAT_CHECK_INTERVAL_S ELSE 0]
    /\ UNCHANGED <<actVars, regVars, cliVars, codecVars, twinVars, monitor_thread, lifepc, lifecall,
                   jointimer>>

\* _heartbeat_monitor: the sleep is over and self._check_heartbeats() runs
MonCheck ==
  \E s \in MonitorThreads :
    /\ monpc[s] = "sleep"
    /\ montimer[s] = 0
    /\ LET st == CheckHeartbeats(RegistryState(registry, manager_actors, heartbeats, NoReply),
                                 clock)
       IN /\ registry' = st.registry
          /\ manager_actors' = st.manager_actors
          /\ heartbeats' = st.heartbeats
    /\ monpc' = [monpc EXCEPT ![s] = "while"]
    /\ UNCHANGED <<actVars, cliVars, codecVars, twinVars, form, running, clock, srvVars, swVars,
                   monitor_thread, montimer, lifepc, lifecall, jointimer>>

\* the requests that fill the maps: each manager registers one actor, and
\* one of them sends heartbeats
LifeRequests ==
  {RegisterActor("m1", "a", ManagerEndpoint["m1"]),
   RegisterActor("m2", "b", ManagerEndpoint["m2"]),
   Heartbeat("m1")}

\* a request is handled by its actor handler
LifeRequest ==
  /\ \E r \in LifeRequests :
       LET st == ActorHandle(RegistryState(registry, manager_actors, heartbeats, NoReply),
                             r, clock)
       IN /\ registry' = st.registry
          /\ manager_actors' = st.manager_actors
          /\ heartbeats' = st.heartbeats
  /\ UNCHANGED <<actVars, cliVars, codecVars, twinVars, lifeVars, form, running, clock, srvVars, swVars>>

\* one second passes, when no thread can move
LifeTick ==
  /\ clock + 1 <= MaxClock
  /\ \A s \in MonitorThreads : monpc[s] # "while" /\ (monpc[s] = "sleep" => montimer[s] > 0)
  /\ lifepc = "join" => (jointimer > 0 /\ monpc[monitor_thread] # "exited")
  /\ clock' = clock + 1
  /\ montimer' = [s \in MonitorThreads |-> IF montimer[s] > 0 THEN montimer[s] - 1 ELSE 0]
  /\ jointimer' = IF jointimer > 0 THEN jointimer - 1 ELSE 0
  /\ UNCHANGED <<actVars, cliVars, codecVars, twinVars, form, running, mapVars, srvVars, swVars,
                 monitor_thread, monpc, lifepc, lifecall>>

NextLife ==
  \/ LifeInit \/ LifeEnd \/ LifeJoin
  \/ MonWhile \/ MonCheck
  \/ LifeRequest \/ LifeTick

LifeSpecInit == Init /\ form = "actor"

LifeSpec == LifeSpecInit /\ [][NextLife]_vars

(* ---------------------------------------------------------------------- *)
(* The actor runtime: sends, replies, handlers, workers and managers       *)
(* ---------------------------------------------------------------------- *)
\* the record a RemoteActorRef puts on the wire
WireRecord(receiver, sender, m, msg) ==
  [receiver |-> receiver,
   sender_actor |-> sender.name,
   sender_endpoint |-> IF sender = NoRef THEN Null ELSE LocalEndpoint(m),
   message |-> msg]

\* mailboxes, wires and reply queues together: what a send can change
Channels(mb, w, s) == [mailbox |-> mb, wire |-> w, slots |-> s]

\* ref.send(msg, sender) by an actor of manager m: enqueue on the mailbox of
\* a local actor, or hand a wire record to the transport towards the
\* endpoint
Send(ch, m, ref, msg, sender) ==
  IF ref.endpoint = Null
  THEN [ch EXCEPT !.mailbox[ref.name] = Append(@, Envelope(msg, sender, NoQueue))]
  ELSE [ch EXCEPT !.wire[ManagerAt(ref.endpoint)] =
                     Append(@, WireRecord(ref.name, sender, m, msg))]

\* a reply helper that answers every actor of the manager
ReplyToAll(ch, a, env, response) ==
  [ch EXCEPT !.mailbox = [b \in Actors |->
                            IF ManagerOf(b) = ManagerOf(a) /\ b # a
                            THEN Append(ch.mailbox[b], Envelope(response, LocalRef(a), NoQueue))
                            ELSE ch.mailbox[b]]]

\* Actor.reply(env, response): the reply queue if there is one, else the
\* sender if there is one, else nothing
Reply(ch, a, env, response) ==
  IF env.reply_queue # NoQueue
  THEN [ch EXCEPT !.slots[env.reply_queue] = Append(@, response)]
  ELSE IF env.sender # NoRef
  THEN Send(ch, ManagerOf(a), env.sender, response, LocalRef(a))
  ELSE ch

\* PingActor.on_pong stops after this count
LastCount == 5

\* a PingActor that plays one round more
PongIsLastLate(n) == n >= LastCount + 1

\* PingActor.on_pong: `env.msg.count >= 5`
PongIsLast(n) == n >= LastCount

\* what the registry lookup in PingActor.on_start can end with
LookupOutcomes ==
  {"return", "ActorNotFoundError", "ActorOfflineError", "RegistryError", "TimeoutError",
   "ZMQError"}

\* PingActor.on_start: the three except clauses; TimeoutError is a
\* RegistryError, zmq.ZMQError is not
CaughtByOnStart ==
  {"ActorNotFoundError", "ActorOfflineError", "RegistryError", "TimeoutError"}

\* the handler of actor a for envelope env, run to its end with lookup
\* outcome lk: the channels, PingActor.pong_ref and whether it called
\* handle.terminate()
HandlerResult(ch, pr, a, env, lk) ==
  LET k == env.msg.kind
      n == env.msg.count
      quiet == [ch |-> ch, pong_ref |-> pr, terminate |-> FALSE]
  IN CASE a = "pong" /\ k = "Ping" ->
            [quiet EXCEPT !.ch = Reply(ch, a, env, Msg("Pong", n))]
       [] a = "ping" /\ k = "Start" ->
            IF lk = "return"
            THEN LET ref == RemoteRef("pong", LocalEndpoint("PongManager"))
                 IN [ch |-> Send(ch, ManagerOf(a), ref, Msg("Ping", 1), LocalRef(a)),
                     pong_ref |-> ref,
                     terminate |-> FALSE]
            ELSE IF lk \in CaughtByOnStart
            THEN [quiet EXCEPT !.terminate = TRUE]
            ELSE quiet
       [] a = "ping" /\ k = "Pong" ->
            IF PongIsLast(n)
            THEN [quiet EXCEPT !.terminate = TRUE]
            ELSE IF pr # NoRef
            THEN [quiet EXCEPT !.ch = Send(ch, ManagerOf(a), pr, Msg("Ping", n + 1), LocalRef(a))]
            ELSE quiet
       [] OTHER -> quiet

\* the lookup outcomes a handler invocation can meet
OutcomesFor(a, env) ==
  IF a = "ping" /\ env.msg.kind = "Start" THEN LookupOutcomes ELSE {"none"}

\* a worker that goes straight to its message loop
WorkerEntryLoop == "loop"

\* where a new worker begins: its first action is the delivery of Start
WorkerEntry == "start"

\* Manager.init() of manager m
MgrInit(m) ==
  /\ mgrpc[m] = "managed"
  /\ mgrpc' = [mgrpc EXCEPT ![m] = "running"]
  /\ wpc' = [w \in Workers |->
               IF ManagerOf(w[1]) = m /\ w \in WorkersOf(w[1]) THEN WorkerEntry ELSE wpc[w]]
  /\ UNCHANGED <<registrySide, chanVars, current, busy, log, backlog, pending_end, pending_join,
                 joined, end_calls, callerVars, actor_running, pong_ref, terminated>>

\* a worker's first action: the Start envelope, without a sender, goes to
\* its actor
WorkerStart ==
  \E w \in Workers :
    /\ wpc[w] = "start"
    /\ current' = [current EXCEPT ![w] = Envelope(StartMsg, NoRef, NoQueue)]
    /\ busy' = [busy EXCEPT ![w[1]] = @ + 1]
    /\ log' = [log EXCEPT ![w[1]] = Append(@, current'[w])]
    /\ backlog' = [backlog EXCEPT ![w[1]] = Len(mailbox[w[1]])]
    /\ wpc' = [wpc EXCEPT ![w] = "handling"]
    /\ UNCHANGED <<registrySide, chanVars, mgrVars, callerVars, actor_running, pong_ref,
                   terminated>>

\* the handler returns (or there is none for the message's kind)
HandlerEndWith(w, lk) ==
  /\ wpc[w] = "handling"
  /\ LET r == HandlerResult(Channels(mailbox, wire, slots), pong_ref, w[1], current[w], lk)
     IN /\ mailbox' = r.ch.mailbox
        /\ wire' = r.ch.wire
        /\ slots' = r.ch.slots
        /\ pong_ref' = r.pong_ref
        /\ terminated' = [terminated EXCEPT ![ManagerOf(w[1])] = @ \/ r.terminate]
  /\ current' = [current EXCEPT ![w] = NoEnvelope]
  /\ busy' = [busy EXCEPT ![w[1]] = @ - 1]
  /\ wpc' = [wpc EXCEPT ![w] = "loop"]
  /\ UNCHANGED <<registrySide, log, backlog, mgrVars, callerVars, actor_running>>

\* the same, with any outcome of the lookup where the handler makes one; an
\* exception that leaves the handler is logged by the worker, which goes on
HandlerEnd ==
  \E w \in Workers :
    /\ wpc[w] = "handling"
    /\ \E lk \in OutcomesFor(w[1], current[w]) : HandlerEndWith(w, lk)

\* the worker loop: while the actor's running flag is set
WorkerLoop ==
  \E w \in Workers :
    /\ wpc[w] = "loop"
    /\ wpc' = [wpc EXCEPT ![w] = IF actor_running[w[1]] THEN "pop" ELSE "exited"]
    /\ UNCHANGED <<registrySide, chanVars, current, busy, log, backlog, mgrVars, callerVars,
                   actor_running, pong_ref, terminated>>

\* the worker pops the next envelope and dispatches it
WorkerPop ==
  \E w \in Workers :
    /\ wpc[w] = "pop"
    /\ mailbox[w[1]] # <<>>
    /\ current' = [current EXCEPT ![w] = Head(mailbox[w[1]])]
    /\ mailbox' = [mailbox EXCEPT ![w[1]] = Tail(@)]
    /\ busy' = [busy EXCEPT ![w[1]] = @ + 1]
    /\ log' = [log EXCEPT ![w[1]] = Append(@, current'[w])]
    /\ wpc' = [wpc EXCEPT ![w] = "handling"]
    /\ UNCHANGED <<registrySide, wire, slots, backlog, mgrVars, callerVars, actor_running, pong_ref,
                   terminated>>

\* the blocking pop's poll interval is over with the mailbox empty
WorkerPoll ==
  \E w \in Workers :
    /\ wpc[w] = "pop"
    /\ mailbox[w[1]] = <<>>
    /\ wpc' = [wpc EXCEPT ![w] = "loop"]
    /\ UNCHANGED <<registrySide, chanVars, current, busy, log, backlog, mgrVars, callerVars,
                   actor_running, pong_ref, terminated>>

\* the receive loop of manager m's receiver: one wire record is read; if its
\* receiver is a local actor, an envelope whose sender is a remote reference
\* to the record's sender goes to that actor's mailbox
Receive ==
  \E m \in ActorManagers :
    /\ mgrpc[m] = "running"
    /\ wire[m] # <<>>
    /\ LET rec == Head(wire[m])
           sender == IF rec.sender_actor = Null THEN NoRef
                     ELSE RemoteRef(rec.sender_actor, rec.sender_endpoint)
       IN mailbox' = IF rec.receiver \in ActorsOf(m)
                     THEN [mailbox EXCEPT ![rec.receiver] =
                                            Append(@, Envelope(rec.message, sender, NoQueue))]
                     ELSE mailbox
    /\ wire' = [wire EXCEPT ![m] = Tail(@)]
    /\ UNCHANGED <<registrySide, slots, workerVars, mgrVars, callerVars, actor_running,
                   pong_ref, terminated>>

\* a thread outside the actors sends to `pong` through its local reference:
\* ref.send(msg) or ref.send(msg, sender=sink_ref)
CallerSend ==
  /\ sends_left > 0
  /\ \E c \in Callers, s \in {NoRef, LocalRef("sink")} :
        /\ waiting[c] = NoQueue
        /\ mailbox' = [mailbox EXCEPT !["pong"] = Append(@, Envelope(Msg("Ping", sends_left), s, NoQueue))]
  /\ sends_left' = sends_left - 1
  /\ UNCHANGED <<registrySide, wire, slots, workerVars, mgrVars, waiting, actor_running,
                 pong_ref, terminated>>

\* ref.fast_send(msg): an envelope with a fresh reply queue is enqueued and
\* the caller waits on that queue
CallerFastSend ==
  /\ sends_left > 0
  /\ \E c \in Callers :
        /\ waiting[c] = NoQueue
        /\ mailbox' = [mailbox EXCEPT !["pong"] =
                          Append(@, Envelope(Msg("Ping", sends_left), NoRef, sends_left))]
        /\ waiting' = [waiting EXCEPT ![c] = sends_left]
  /\ sends_left' = sends_left - 1
  /\ UNCHANGED <<registrySide, wire, slots, workerVars, mgrVars, actor_running, pong_ref,
                 terminated>>

\* fast_send returns the reply, or gives up when its timeout is over
CallerReturn ==
  \E c \in Callers :
    /\ waiting[c] # NoQueue
    /\ waiting' = [waiting EXCEPT ![c] = NoQueue]
    /\ slots' = IF slots[waiting[c]] # <<>>
                THEN [slots EXCEPT ![waiting[c]] = Tail(@)]
                ELSE slots
    /\ UNCHANGED <<registrySide, mailbox, wire, workerVars, mgrVars, sends_left,
                   actor_running, pong_ref, terminated>>

\* an end() that does its work on every call
BeginEndAlways(m, at) ==
  /\ mgrpc' = [mgrpc EXCEPT ![m] = "ending"]
  /\ pending_end' = [pending_end EXCEPT ![m] = ActorsOf(m)]

\* Manager.end() is entered: a manager that has ended is left as it is
BeginEnd(m, at) ==
  IF at = "ended"
  THEN UNCHANGED <<mgrpc, pending_end>>
  ELSE /\ mgrpc' = [mgrpc EXCEPT ![m] = "ending"]
       /\ pending_end' = [pending_end EXCEPT ![m] = ActorsOf(m)]

\* Manager.end() is called, after init()
EndCall(m) ==
  /\ mgrpc[m] \in {"running", "ended"}
  /\ end_calls[m] < MaxEndCalls
  /\ end_calls' = [end_calls EXCEPT ![m] = @ + 1]
  /\ BeginEnd(m, mgrpc[m])
  /\ UNCHANGED <<registrySide, chanVars, workerVars, pending_join, joined, callerVars,
                 actor_running, pong_ref, terminated>>

\* end(): the actor's running flag after its Shutdown envelope was enqueued
FlagAfterShutdown(flags, a) == [flags EXCEPT ![a] = FALSE]

\* end(): the next actor gets a Shutdown envelope and its running flag is
\* cleared; after the last one the joins begin
EndSend ==
  \E m \in ActorManagers :
    /\ mgrpc[m] = "ending"
    /\ \E a \in pending_end[m] :
         /\ mailbox' = [mailbox EXCEPT ![a] = Append(@, Envelope(ShutdownMsg, NoRef, NoQueue))]
         /\ actor_running' = FlagAfterShutdown(actor_running, a)
         /\ pending_end' = [pending_end EXCEPT ![m] = @ \ {a}]
         /\ IF pending_end'[m] = {}
            THEN /\ mgrpc' = [mgrpc EXCEPT ![m] = "joining"]
                 /\ pending_join' = [pending_join EXCEPT ![m] =
                                       {w \in Workers : ManagerOf(w[1]) = m /\ wpc[w] # "unborn"}]
            ELSE UNCHANGED <<mgrpc, pending_join>>
    /\ UNCHANGED <<registrySide, wire, slots, workerVars, joined, end_calls, callerVars,
                   pong_ref, terminated>>

\* end(): the join of one worker returns, because the worker has exited or
\* because the join budget is over while it is inside a handler; after the
\* last join end() returns
EndJoin ==
  \E m \in ActorManagers :
    /\ mgrpc[m] = "joining"
    /\ \E w \in pending_join[m] :
         /\ wpc[w] \in {"exited", "handling"}
         /\ joined' = [joined EXCEPT ![w] = IF wpc[w] = "exited" THEN "exited" ELSE "abandoned"]
         /\ pending_join' = [pending_join EXCEPT ![m] = @ \ {w}]
         /\ mgrpc' = [mgrpc EXCEPT ![m] = IF pending_join'[m] = {} THEN "ended" ELSE "joining"]
    /\ UNCHANGED <<registrySide, chanVars, workerVars, pending_end, end_calls, callerVars,
                   actor_running, pong_ref, terminated>>

\* one manager with its actors, used from outside through references
ActMgrInit == MgrInit("PongManager")

NextAct ==
  \/ ActMgrInit
  \/ WorkerStart \/ HandlerEnd \/ WorkerLoop \/ WorkerPop \/ WorkerPoll
  \/ CallerSend \/ CallerFastSend \/ CallerReturn

ActSpecInit == Init /\ form = "standalone"

ActSpec == ActSpecInit /\ [][NextAct]_vars

\* one manager from init() to end(), with sends to its actors in between
ActEndCall == EndCall("PongManager")

NextEnd ==
  \/ ActMgrInit
  \/ WorkerStart \/ HandlerEnd \/ WorkerLoop \/ WorkerPop \/ WorkerPoll
  \/ CallerSend
  \/ ActEndCall \/ EndSend \/ EndJoin

EndSpec == ActSpecInit /\ [][NextEnd]_vars

\* the two processes of the registry ping-pong example; the ping process
\* ends its manager once run() has returned
PpMgrInit == \E m \in ActorManagers : MgrInit(m)

PpEndCall == terminated["PingManager"] /\ EndCall("PingManager")

NextPp ==
  \/ PpMgrInit
  \/ WorkerStart \/ HandlerEnd \/ WorkerLoop \/ WorkerPop \/ WorkerPoll
  \/ Receive
  \/ PpEndCall \/ EndSend \/ EndJoin

PingPongSpec == ActSpecInit /\ [][NextPp]_vars

\* every thread that can take a step eventually takes one, and the wire
\* delivers
PpFairness ==
  /\ WF_vars(PpMgrInit)
  /\ WF_vars(Receive)
  /\ \A w \in Workers :
       /\ WF_vars(WorkerStart /\ wpc[w] = "start" /\ wpc'[w] # wpc[w])
       /\ WF_vars(HandlerEnd /\ wpc[w] = "handling" /\ wpc'[w] # wpc[w])
       /\ WF_vars(WorkerLoop /\ wpc[w] = "loop" /\ wpc'[w] # wpc[w])
       /\ WF_vars(WorkerPop /\ wpc[w] = "pop" /\ wpc'[w] # wpc[w])

PingPongFairSpec == PingPongSpec /\ PpFairness

\* the ping process up to the end of PingActor's Start handler, over the
\* registry client: the client model's calling thread is the main thread
\* for start_heartbeat() and then ping's worker for lookup("pong")
PingWorker == <<"ping", 1>>

\* main: registry_client.start_heartbeat(), before mgr.init()
PsStartHeartbeat == StartHeartbeat /\ mgrpc["PingManager"] = "managed"

\* main: mgr.init()
PsMgrInit == MgrInit("PingManager") /\ call = "start_heartbeat"

\* PingActor.on_start: self.registry_client.lookup("pong") is entered
PsLookup ==
  /\ CallMethod
  /\ call' = "lookup"
  /\ call # "lookup"
  /\ wpc[PingWorker] = "handling"
  /\ current[PingWorker].msg = StartMsg

\* PingActor.on_start ends with what lookup returned or raised
PsHandlerEnd ==
  /\ call = "lookup"
  /\ pc["main"] = "idle"
  /\ result # NoOutcome
  /\ HandlerEndWith(PingWorker, result.kind)

NextPs ==
  \/ PsStartHeartbeat \/ PsMgrInit \/ WorkerStart \/ PsLookup \/ PsHandlerEnd
  \/ HbWhile \/ HbWake
  \/ Acquire \/ SocketSend \/ RegistryAnswers \/ SocketRecv \/ RecvTimeout
  \/ ClientTick

PingStartSpec == ActSpecInit /\ [][NextPs]_vars

(* ---------------------------------------------------------------------- *)
(* Properties                                                              *)
(* ---------------------------------------------------------------------- *)

\* the reply of a LookupActor(n) handled in one piece on maps reg, h at time t
LookupOutcome(reg, h, n, t) ==
  IF n \in DOMAIN reg
  THEN LookupResult(n, reg[n].endpoint, IsManagerOnline(h, reg[n].manager_id, t))
  ELSE LookupResult(n, Null, FALSE)

\* manager m has a heartbeat record that lies within the timeout window
HeartbeatWithinWindow(m) ==
  \E i \in 1..Len(heartbeats) :
     /\ heartbeats[i][1] = m
     /\ clock < heartbeats[i][2] + HEARTBEAT_TIMEOUT_S

\* manager m has a heartbeat record that is more than the timeout old
HeartbeatExpired(m) ==
  \E i \in 1..Len(heartbeats) :
     /\ heartbeats[i][1] = m
     /\ clock > heartbeats[i][2] + HEARTBEAT_TIMEOUT_S

\* the names whose entry is owned by manager m
OwnedBy(reg, m) == {n \in DOMAIN reg : reg[n].manager_id = m}

\* C1: a RegisterActor for a name that is present is answered
\* RegistrationFailed("Name already registered") and changes no entry; one for
\* an absent name inserts the requester's entry and its handler ends with
\* RegistrationOk; an entry never changes while it is present, so the first
\* request processed is the only one that succeeds and a lookup of the name
\* returns the winner's endpoint as long as the entry is there.
C1_RegisterStep ==
  /\ (srvpc = "idle" /\ req'.message_type = "RegisterActor") =>
        IF req'.actor_name \in DOMAIN registry
        THEN /\ reply' = RegistrationFailed(req'.actor_name, "Name already registered")
             /\ srvpc' = "done"
             /\ registry' = registry
        ELSE /\ reply'.message_type # "RegistrationFailed"
             /\ srvpc' # "done"
             /\ req'.actor_name \in DOMAIN registry'
             /\ registry'[req'.actor_name] =
                  ActorEntry(req'.actor_endpoint, req'.manager_id)
  /\ (req.message_type = "RegisterActor" /\ srvpc # "done" /\ srvpc' = "done") =>
        reply' = RegistrationOk(req.actor_name)
  /\ \A n \in (DOMAIN registry) \cap (DOMAIN registry') : registry'[n] = registry[n]
  /\ (srvpc = "idle" /\ req'.message_type = "LookupActor"
        /\ req'.actor_name \in DOMAIN registry) =>
        entry' = registry[req'.actor_name]
  /\ (srvpc' = "done" /\ req'.message_type = "LookupActor" /\ entry' # NoEntry) =>
        reply'.endpoint = entry'.endpoint

C1_NameUniqueness == [][C1_RegisterStep]_vars

\* a manager was refused a name that another manager holds
C1_Witness ==
  /\ srvpc = "done"
  /\ reply.message_type = "RegistrationFailed"
  /\ req.actor_name \in DOMAIN registry
  /\ registry[req.actor_name].manager_id # req.manager_id

\* C2: the LookupResult built for a name that is present carries the entry's
\* endpoint and online = TRUE exactly when the owning manager has a heartbeat
\* record less than HEARTBEAT_TIMEOUT_S old at the moment the handler
\* evaluates it; without a record the entry is reported offline.
C2_OnlineStep ==
  (srvpc \in {"lk_in", "lk_read"} /\ srvpc' = "done") =>
     /\ reply'.message_type = "LookupResult"
     /\ reply'.endpoint = entry.endpoint
     /\ reply'.online = HeartbeatWithinWindow(entry.manager_id)

C2_OnlineIffRecent == [][C2_OnlineStep]_vars

\* a present entry was reported offline although its manager has a record
C2_Witness ==
  /\ srvpc = "done"
  /\ reply.message_type = "LookupResult"
  /\ reply.endpoint # Null
  /\ ~reply.online
  /\ entry.manager_id \in HbKeys(heartbeats)

\* C3: when one run of _check_heartbeats returns, every manager it found
\* stale is out of the manager->actors map and of the heartbeat map and owns
\* no name in the name map, and no manager whose heartbeat is more than
\* HEARTBEAT_TIMEOUT_S older than the run's `now` is left.
C3_SweepRemovesStale ==
  swpc = "sw_end" =>
     /\ \A i \in 1..Len(stale_managers) :
           /\ stale_managers[i] \notin DOMAIN manager_actors
           /\ stale_managers[i] \notin HbKeys(heartbeats)
           /\ OwnedBy(registry, stale_managers[i]) = {}
     /\ \A j \in 1..Len(heartbeats) :
           now - heartbeats[j][2] <= HEARTBEAT_TIMEOUT_S

\* a run has removed one manager and left another one's entry
C3_Witness ==
  /\ swpc = "sw_end"
  /\ Len(stale_managers) = 1
  /\ DOMAIN registry # {}
  /\ Len(heartbeats) = 1

\* C4: the names of a manager that has been silent for more than
\* HEARTBEAT_TIMEOUT_S are eventually removed by the sweeper, whatever the
\* interleaving with request handling; so whenever such a name is in the name
\* map and no request is being handled, the monitor thread is still there to
\* remove it.
C4_DecayedNamesRemoved ==
  \A n \in DOMAIN registry :
     (srvpc = "idle" /\ HeartbeatExpired(registry[n].manager_id)) => swpc # "dead"

\* C5: a successful RegisterActor(M, n) counts as a heartbeat of M: in the
\* state it leaves, a lookup of n reports the registered endpoint with
\* online = TRUE.
C5_RegisterStep ==
  (srvpc = "reg_hb" /\ srvpc' = "done") =>
     /\ reply' = RegistrationOk(req.actor_name)
     /\ LookupOutcome(registry', heartbeats', req.actor_name, clock')
          = LookupResult(req.actor_name, req.actor_endpoint, TRUE)

C5_RegisterIsHeartbeat == [][C5_RegisterStep]_vars

\* a registration that succeeded long after the start, from a manager whose
\* only record is that registration
C5_Witness ==
  /\ srvpc = "done"
  /\ req.message_type = "RegisterActor"
  /\ reply.message_type = "RegistrationOk"
  /\ clock > HEARTBEAT_TIMEOUT_S
  /\ req.manager_id \in DOMAIN manager_actors
  /\ manager_actors[req.manager_id] = {req.actor_name}
  /\ req.manager_id \in HbKeys(heartbeats)
  /\ HbGet(heartbeats, req.manager_id) = clock

\* C6: once the sweeper has started to remove manager M (it has popped M's
\* actor set and not yet finished deleting its names), a lookup of a name of
\* that set finds no entry.
C6_LookupStep ==
  (srvpc = "idle" /\ req'.message_type = "LookupActor"
     /\ swpc \in {"um_iter", "um_next", "um_del"}
     /\ req'.actor_name \in actor_names) =>
     entry' = NoEntry

C6_SweepAtomicForLookups == [][C6_LookupStep]_vars

\* C7: the sweeper deletes a name, and drops a heartbeat record, only of a
\* manager whose last heartbeat is more than HEARTBEAT_TIMEOUT_S old at the
\* moment of the removal.
C7_RemovalStep ==
  /\ (swpc = "um_del" /\ swpc' = "um_next") =>
        \A n \in (DOMAIN registry) \ (DOMAIN registry') :
           HeartbeatExpired(registry[n].manager_id)
  /\ (swpc = "um_hb" /\ swpc' = "sw_loop") =>
        \A m \in HbKeys(heartbeats) \ HbKeys(heartbeats') : HeartbeatExpired(m)

C7_SweeperRemovesOnlyStale == [][C7_RemovalStep]_vars

\* the manager a step of _unregister_manager works on
UnregisteringManager ==
  IF swpc = "sw_loop"
  THEN IF swIdx <= Len(stale_managers) THEN stale_managers[swIdx] ELSE Null
  ELSE manager_id

\* C8: no step of _unregister_manager(M) changes the name-map entries, the
\* actor set or the heartbeat record of a manager other than M.
C8_UnregisterStep ==
  (swpc \in {"sw_loop", "um_iter", "um_next", "um_del", "um_hb"}) =>
     \A m \in Managers \ {UnregisteringManager} :
        /\ (m \in DOMAIN manager_actors) = (m \in DOMAIN manager_actors')
        /\ (m \in DOMAIN manager_actors) => manager_actors'[m] = manager_actors[m]
        /\ (m \in HbKeys(heartbeats)) = (m \in HbKeys(heartbeats'))
        /\ (m \in HbKeys(heartbeats)) => HbGet(heartbeats', m) = HbGet(heartbeats, m)
        /\ \A n \in OwnedBy(registry, m) :
              n \in DOMAIN registry' /\ registry'[n] = registry[n]

C8_UnregisterFrame == [][C8_UnregisterStep]_vars

\* _unregister_manager(M) has deleted M's names while another manager has one
C8_Witness ==
  /\ swpc = "um_hb"
  /\ \E m \in Managers \ {manager_id} :
        /\ m \in DOMAIN manager_actors
        /\ OwnedBy(registry, m) # {}
        /\ m \in HbKeys(heartbeats)

\* C9: handling Heartbeat(m) sets m's last heartbeat to the current time,
\* builds HeartbeatAck, and changes neither the name map nor the
\* manager->actors map nor another manager's record.
C9_HeartbeatStep ==
  (srvpc = "idle" /\ req'.message_type = "Heartbeat") =>
     /\ req'.manager_id \in HbKeys(heartbeats')
     /\ HbGet(heartbeats', req'.manager_id) = clock
     /\ reply' = HeartbeatAck
     /\ srvpc' = "done"
     /\ registry' = registry
     /\ manager_actors' = manager_actors
     /\ \A m \in Managers \ {req'.manager_id} :
           /\ (m \in HbKeys(heartbeats)) = (m \in HbKeys(heartbeats'))
           /\ (m \in HbKeys(heartbeats)) => HbGet(heartbeats', m) = HbGet(heartbeats, m)

C9_HeartbeatFrame == [][C9_HeartbeatStep]_vars

\* a heartbeat was handled from a manager that the running sweep has already
\* removed: it has a record again, and still no row and no name
C9_Witness ==
  /\ srvpc = "done"
  /\ reply = HeartbeatAck
  /\ \E i \in 1..Len(stale_managers) : i < swIdx /\ stale_managers[i] = req.manager_id
  /\ req.manager_id \in HbKeys(heartbeats)
  /\ req.manager_id \notin DOMAIN manager_actors
  /\ OwnedBy(registry, req.manager_id) = {}

\* C10: the handling of every UnregisterActor(actor_name) ends with the reply
\* RegistrationOk(actor_name), whether or not the name was present, in both
\* forms of the registry.
C10_UnregisterAnswered ==
  (srvpc = "done" /\ req.message_type = "UnregisterActor") =>
     reply = RegistrationOk(req.actor_name)

\* C11: the handling of UnregisterActor(n) removes n from the name map and
\* from the actor set of the manager that owned it, and changes nothing else:
\* no heartbeat record, no other name's entry and no other manager's actor set.
C11_UnregisterActorStep ==
  /\ (srvpc = "idle" /\ req'.message_type = "UnregisterActor") =>
        /\ registry' = MapDel(registry, req'.actor_name)
        /\ manager_actors' = manager_actors
        /\ heartbeats' = heartbeats
  /\ (srvpc \in {"un_check", "un_get"} /\ srvpc' # srvpc) =>
        /\ registry' = registry
        /\ manager_actors' = manager_actors
        /\ heartbeats' = heartbeats
  /\ (srvpc = "un_discard" /\ srvpc' # srvpc) =>
        /\ registry' = registry
        /\ heartbeats' = heartbeats
        /\ DOMAIN manager_actors' = DOMAIN manager_actors
        /\ \A m \in DOMAIN manager_actors :
              manager_actors'[m] = IF m = entry.manager_id
                                   THEN manager_actors[m] \ {req.actor_name}
                                   ELSE manager_actors[m]
  /\ (srvpc' = "done" /\ srvpc # "done" /\ req'.message_type = "UnregisterActor") =>
        /\ req'.actor_name \notin DOMAIN registry'
        /\ (entry' # NoEntry /\ entry'.manager_id \in DOMAIN manager_actors') =>
              req'.actor_name \notin manager_actors'[entry'.manager_id]

C11_UnregisterActorFrame == [][C11_UnregisterActorStep]_vars

\* a name was unregistered while its manager keeps another name, its row and
\* its heartbeat record
C11_Witness ==
  /\ srvpc = "done"
  /\ req.message_type = "UnregisterActor"
  /\ entry # NoEntry
  /\ entry.manager_id \in DOMAIN manager_actors
  /\ manager_actors[entry.manager_id] # {}
  /\ entry.manager_id \in HbKeys(heartbeats)
  /\ OwnedBy(registry, entry.manager_id) # {}

\* C12: the standalone registry answers every request it receives with
\* exactly one reply and keeps serving: its loop is never left, also not by a
\* request of an unknown type or one that lacks a required field, and every
\* handled request has a reply to send.
C12_EveryRequestAnswered ==
  form = "standalone" =>
     /\ srvpc # FaultStandalone
     /\ srvpc = "done" => reply # NoReply

\* C13: a RegisterActor that is rejected because the name is present leaves
\* the name map, the manager->actors map and the heartbeat map as they were:
\* neither the stored entry nor the requester's heartbeat is touched, by the
\* handler or by the sending of the RegistrationFailed reply.
C13_RejectStep ==
  /\ (srvpc = "idle" /\ req'.message_type = "RegisterActor"
        /\ req'.actor_name \in DOMAIN registry) =>
        /\ reply'.message_type = "RegistrationFailed"
        /\ registry' = registry
        /\ manager_actors' = manager_actors
        /\ heartbeats' = heartbeats
  /\ (srvpc = "done" /\ reply.message_type = "RegistrationFailed" /\ srvpc' = "idle") =>
        /\ registry' = registry
        /\ manager_actors' = manager_actors
        /\ heartbeats' = heartbeats

C13_RejectedRegisterFrame == [][C13_RejectStep]_vars

\* a manager with an old heartbeat record was refused a name held by another
\* manager, and its record is still the old one
C13_Witness ==
  /\ srvpc = "done"
  /\ reply.message_type = "RegistrationFailed"
  /\ req.actor_name \in DOMAIN registry
  /\ registry[req.actor_name].manager_id # req.manager_id
  /\ req.manager_id \in HbKeys(heartbeats)
  /\ HbGet(heartbeats, req.manager_id) < clock

\* the heartbeat threads that were started and have not ended
AliveHeartbeatThreads == {t \in HeartbeatThreads : pc[t] \notin {"unborn", "exited"}}

\* C14: on one RegistryClient at most one request is in flight on the
\* request/reply socket, and at most one thread is between taking the socket
\* lock and leaving _send_recv, whatever the interleaving of the heartbeat
\* threads with the caller and also after a call that timed out.
C14_OneRequestInFlight ==
  /\ in_flight <= 1
  /\ Cardinality({t \in Threads : pc[t] \in {"send", "recv"}}) <= 1

\* a heartbeat thread is about to send on a socket whose earlier request
\* timed out unanswered, while the caller waits for the lock
C14_Witness ==
  \E t \in HeartbeatThreads :
     /\ pc[t] = "send"
     /\ socket = "awaiting"
     /\ in_flight = 1
     /\ pc["main"] = "lock"

\* C19: a heartbeat attempt that fails does not end the heartbeat thread:
\* every attempt, failed or not, is followed by a sleep of
\* HEARTBEAT_INTERVAL_S, the sleep by the test of _running, and the test by
\* another attempt as long as _running is set; the thread ends only at that
\* test, when _running is cleared.
C19_LoopStep ==
  \A t \in HeartbeatThreads :
     /\ (pc[t] \in {"send", "recv"} /\ pc'[t] \notin {"send", "recv"}) =>
           pc'[t] = "sleep" /\ timer'[t] = HEARTBEAT_INTERVAL_S
     /\ (pc[t] = "sleep" /\ pc'[t] # "sleep") => timer[t] = 0 /\ pc'[t] = "while"
     /\ (pc[t] = "while" /\ pc'[t] # "while") =>
           pc'[t] = IF client_running THEN "lock" ELSE "exited"
     /\ (pc[t] # "exited" /\ pc'[t] = "exited") => pc[t] = "while" /\ ~client_running

C19_HeartbeatLoopSurvivesFailure == [][C19_LoopStep]_vars

\* a heartbeat thread makes a new attempt after one that failed
C19_Witness ==
  \E t \in HeartbeatThreads :
     /\ last_attempt[t] = "failed"
     /\ pc[t] = "send"
     /\ client_running

\* C20: at most one heartbeat loop of a client runs: a heartbeat thread that
\* finds _running set and goes on to its next attempt is the only heartbeat
\* thread of the client that is alive.
C20_LoopStep ==
  \A t \in HeartbeatThreads :
     (pc[t] = "while" /\ pc'[t] = "lock") => AliveHeartbeatThreads = {t}

C20_OneHeartbeatTask == [][C20_LoopStep]_vars

\* C15: lookup(name) returns the endpoint exactly when the LookupResult has
\* an endpoint and online = TRUE; it raises ActorNotFoundError exactly when
\* the name is absent from the registry, and ActorOfflineError exactly when
\* the entry is present and its manager's heartbeat was not within the
\* timeout window when the registry evaluated the lookup.
C15_LookupStep ==
  /\ (req'.message_type = "LookupActor" /\ srvpc # "done" /\ srvpc' = "done") =>
        reply' = LookupOutcome(registry', heartbeats', req'.actor_name, clock')
  /\ (result = NoOutcome /\ result' # NoOutcome /\ call' = "lookup" /\ srvpc = "done") =>
        /\ (result'.kind = "return") = (reply.endpoint # Null /\ reply.online)
        /\ (result'.kind = "return") => result'.endpoint = registry[req.actor_name].endpoint
        /\ (result'.kind = "ActorNotFoundError") = (req.actor_name \notin DOMAIN registry)
        /\ (result'.kind = "ActorOfflineError") =
              (req.actor_name \in DOMAIN registry /\ ~reply.online)
        /\ result'.kind \in {"return", "ActorNotFoundError", "ActorOfflineError"}

C15_LookupOutcomes == [][C15_LookupStep]_vars

\* lookup raised ActorOfflineError for a name that is still in the registry
C15_Witness ==
  /\ call = "lookup"
  /\ result.kind = "ActorOfflineError"
  /\ srvpc = "done"
  /\ req.actor_name \in DOMAIN registry
  /\ HeartbeatExpired(registry[req.actor_name].manager_id)

\* C16: lookup_allow_offline(name) ends in one of three ways only: it
\* returns (endpoint, online), also with online = FALSE, or raises
\* ActorNotFoundError, or raises TimeoutError.
C16_LookupAllowOfflineOutcomes ==
  (call = "lookup_allow_offline" /\ result # NoOutcome) =>
     result.kind \in {"return", "ActorNotFoundError", "TimeoutError"}

\* C17: register(name, endpoint) returns normally exactly when the reply is
\* RegistrationOk, and the name then maps to that endpoint under the
\* requesting manager; it raises RegistrationFailedError with the registry's
\* reason exactly when the reply is RegistrationFailed, and TimeoutError when
\* no reply arrives before the receive deadline.
C17_RegisterStep ==
  /\ (result = NoOutcome /\ result' # NoOutcome /\ call' = "register" /\ srvpc = "done") =>
        /\ (result'.kind = "return") = (reply.message_type = "RegistrationOk")
        /\ (result'.kind = "return") =>
              /\ req.actor_name \in DOMAIN registry
              /\ registry[req.actor_name] = ActorEntry(req.actor_endpoint, req.manager_id)
        /\ (result'.kind = "RegistrationFailedError") =
              (reply.message_type = "RegistrationFailed")
        /\ (result'.kind = "RegistrationFailedError") =>
              result'.reason = reply.reason /\ result'.reason = "Name already registered"
        /\ result'.kind \in {"return", "RegistrationFailedError"}
  /\ (result = NoOutcome /\ result' # NoOutcome /\ call' = "register" /\ srvpc # "done") =>
        result'.kind = "TimeoutError"

C17_RegisterOutcomes == [][C17_RegisterStep]_vars

\* register raised RegistrationFailedError for a name another manager holds
C17_Witness ==
  /\ call = "register"
  /\ result.kind = "RegistrationFailedError"
  /\ result.reason = "Name already registered"
  /\ req.actor_name \in DOMAIN registry
  /\ registry[req.actor_name].manager_id # req.manager_id

\* C18: while the heartbeat thread of a manager's client runs against a
\* registry that answers promptly, no lookup of an actor of that manager is
\* answered online = FALSE, the sweeper never finds the manager stale and
\* none of its entries leaves the name map.
C18_HeartbeatStep ==
  /\ (srvpc # "done" /\ srvpc' = "done" /\ req'.message_type = "LookupActor"
        /\ entry'.manager_id = ClientManager) =>
        reply'.online
  /\ \A i \in 1..Len(stale_managers') : stale_managers'[i] # ClientManager
  /\ \A n \in OwnedBy(registry, ClientManager) :
        n \in DOMAIN registry' /\ registry'[n] = registry[n]

C18_HeartbeatKeepsManagerOnline == [][C18_HeartbeatStep]_vars

\* long after its registration the manager's actor is reported online,
\* after the sweeper has removed a silent manager
C18_Witness ==
  /\ srvpc = "done"
  /\ req = LookupActor(ClientName)
  /\ reply.online
  /\ clock > HEARTBEAT_TIMEOUT_S + HEARTBEAT_INTERVAL_S
  /\ \E t \in HeartbeatThreads : last_attempt[t] = "ok"
  /\ HbKeys(heartbeats) = {ClientManager}
  /\ swpc # "dead"

\* C21: once close() has returned, and until the client is used again, the
\* client holds no socket and puts no further request on the wire, whatever
\* its heartbeat threads do.
C21_ClosedStep ==
  (call = "close" /\ pc["main"] = "idle" /\ call' = "close" /\ pc'["main"] = "idle") =>
     /\ socket' = "none"
     /\ in_flight' <= in_flight

C21_ClosedClientIsSilent == [][C21_ClosedStep]_vars

\* the required fields of the wire table, by message_type
C22_WireTable ==
  [RegisterActor |-> {"manager_id", "actor_name", "actor_endpoint"},
   UnregisterActor |-> {"actor_name"},
   LookupActor |-> {"actor_name"},
   Heartbeat |-> {"manager_id", "timestamp_ms"},
   RegistrationOk |-> {"actor_name"},
   RegistrationFailed |-> {"actor_name", "reason"},
   LookupResult |-> {"actor_name", "endpoint", "online"},
   HeartbeatAck |-> {}]

\* field f of object o, read as the attribute of that name
C22_Field(o, f) ==
  CASE f = "manager_id" -> o.manager_id
    [] f = "actor_name" -> o.actor_name
    [] f = "actor_endpoint" -> o.actor_endpoint
    [] f = "timestamp_ms" -> o.timestamp_ms
    [] f = "reason" -> o.reason
    [] f = "endpoint" -> o.endpoint
    [] f = "online" -> o.online

\* C22: the dict that to_dict() returns for a message of one of the eight
\* classes has message_type equal to the class name and holds every required
\* field of the wire table with the value the message holds.
C22_ToDictStep ==
  (msg_obj' = msg_obj /\ wire_dict' # wire_dict) =>
     /\ "message_type" \in DOMAIN wire_dict'
     /\ wire_dict'["message_type"] = msg_obj.class
     /\ \A f \in C22_WireTable[msg_obj.class] :
           /\ f \in DOMAIN wire_dict'
           /\ wire_dict'[f] = C22_Field(msg_obj, f)

C22_ToDictCarriesWireFields == [][C22_ToDictStep]_vars

\* a Heartbeat built without a timestamp has been turned into its dict
C22_Witness ==
  /\ msg_obj.class = "Heartbeat"
  /\ msg_obj.timestamp_ms \in WallClockMs
  /\ "timestamp_ms" \in DOMAIN wire_dict
  /\ wire_dict["message_type"] = "Heartbeat"
  /\ wire_dict["manager_id"] = msg_obj.manager_id

\* C23: every reply the standalone registry is about to send carries a
\* message_type discriminator, also the reply to a request of an unknown type.
C23_ReplyHasMessageType ==
  (form = "standalone" /\ srvpc = "done") => reply.message_type # Null

\* C29: when run_registry and the actor handlers have handled the same
\* request, after the same earlier requests, their three maps are equal and so
\* are their replies.
C29_FormsAgree ==
  (srvpc = "done" /\ twin_req = req) =>
     /\ twin.registry = registry
     /\ twin.manager_actors = manager_actors
     /\ twin.heartbeats = heartbeats
     /\ twin.reply = reply

\* C30: whatever init() and end() calls were made, at most one monitor
\* thread of the registry is alive, and once end() has returned (and until
\* the next init()) no sweep changes the maps.
C30_SweepStep ==
  /\ Cardinality(AliveMonitors') <= 1
  /\ (lifecall = "end" /\ lifepc = "idle" /\ monpc' # monpc) => mapVars' = mapVars

C30_OneSweeperAndNoneAfterEnd == [][C30_SweepStep]_vars

(* ---------------------------------------------------------------------- *)
(* Claims about the actor runtime                                          *)
(* ---------------------------------------------------------------------- *)
\* the counts of the messages of kind k among the messages ms
RECURSIVE CountsOf(_, _)
CountsOf(ms, k) ==
  IF ms = <<>> THEN <<>>
  ELSE IF Head(ms).kind = k THEN <<Head(ms).count>> \o CountsOf(Tail(ms), k)
  ELSE CountsOf(Tail(ms), k)

\* the messages of a sequence of envelopes
MsgsOf(envs) == [i \in 1..Len(envs) |-> envs[i].msg]

\* the messages of a sequence of wire records
WireMsgsOf(recs) == [i \in 1..Len(recs) |-> recs[i].message]

\* the messages of kind k towards actor a that were sent and not yet
\* dispatched, oldest first
InFlight(a, k) ==
  CountsOf(MsgsOf(mailbox[a]), k) \o CountsOf(WireMsgsOf(wire[ManagerOf(a)]), k)

\* all messages of kind k ever sent towards actor a, oldest first
Exchanged(a, k) == CountsOf(MsgsOf(log[a]), k) \o InFlight(a, k)

OneToFive == <<1, 2, 3, 4, 5>>

IsPrefix(s, t) == Len(s) <= Len(t) /\ \A i \in 1..Len(s) : s[i] = t[i]

C24_Rounds ==
  /\ IsPrefix(Exchanged("pong", "Ping"), OneToFive)
  /\ IsPrefix(Exchanged("ping", "Pong"), OneToFive)
  /\ Len(Exchanged("ping", "Pong")) <= Len(CountsOf(MsgsOf(log["pong"]), "Ping"))
  /\ pong_ref # NoRef => Len(Exchanged("pong", "Ping")) >= 1
  /\ \A i \in 1..Len(log["ping"]) :
       log["ping"][i].msg.kind = "Pong" =>
         log["ping"][i].sender = RemoteRef("pong", LocalEndpoint("PongManager"))
  /\ (terminated["PingManager"] /\ pong_ref # NoRef) =>
       /\ CountsOf(MsgsOf(log["pong"]), "Ping") = OneToFive
       /\ CountsOf(MsgsOf(log["ping"]), "Pong") = OneToFive
       /\ InFlight("pong", "Ping") = <<>>
       /\ InFlight("ping", "Pong") = <<>>

\* C24: in the registry ping-pong example, once the lookup of 'pong' has
\* returned and with a reliable wire, the Pings sent to PongActor are
\* Ping(1), Ping(2), ... in order and never more than five, the Pongs sent
\* back to PingActor are Pong(1), Pong(2), ... in order, each arriving from
\* PongActor's remote reference and never ahead of its Ping; PingActor
\* eventually calls handle.terminate(), and from then on exactly five Pings
\* and five Pongs with counts 1..5 have been dispatched and no Ping or Pong
\* is on its way or sent any more.
C24_FiveRoundsThenTerminate ==
  /\ []C24_Rounds
  /\ (pong_ref # NoRef) ~> terminated["PingManager"]

C24_Witness ==
  /\ terminated["PingManager"]
  /\ pong_ref # NoRef
  /\ mgrpc["PingManager"] = "ended"
  /\ CountsOf(MsgsOf(log["ping"]), "Pong") = OneToFive

\* C25: at every instant at most one handler invocation of an actor is in
\* progress, whatever the interleaving of the sends to it by several
\* senders.
C25_SerialExecution == \A a \in Actors : busy[a] <= 1

C25_Witness ==
  /\ busy["pong"] = 1
  /\ Len(mailbox["pong"]) >= 2
  /\ \E i, j \in 1..Len(mailbox["pong"]) :
       mailbox["pong"][i].reply_queue # mailbox["pong"][j].reply_queue

\* the handler invocation of w for a Ping ends in this step
C26_Replies(w) ==
  /\ w[1] = "pong"
  /\ wpc[w] = "handling"
  /\ wpc'[w] = "loop"
  /\ current[w].msg.kind = "Ping"

C26_ReplyStep ==
  \A w \in Workers :
    C26_Replies(w) =>
      LET env == current[w]
          response == Msg("Pong", env.msg.count)
      IN IF env.reply_queue # NoQueue
         THEN /\ slots' = [slots EXCEPT ![env.reply_queue] = Append(@, response)]
              /\ UNCHANGED <<mailbox, wire>>
         ELSE IF env.sender # NoRef
         THEN /\ mailbox' = [mailbox EXCEPT ![env.sender.name] =
                               Append(@, Envelope(response, LocalRef("pong"), NoQueue))]
              /\ UNCHANGED <<slots, wire>>
         ELSE UNCHANGED <<mailbox, wire, slots>>

\* C26: the reply to an envelope goes to the envelope's reply queue if it
\* has one; otherwise to the mailbox of the envelope's sender if it has one,
\* as an envelope whose sender is the replier's own reference; otherwise
\* nowhere.  No other mailbox or reply queue changes.
C26_ReplyToExactlyOneParty == [][C26_ReplyStep]_vars

C26_Witness ==
  /\ \E q \in Slots : slots[q] # <<>>
  /\ \E i \in 1..Len(log["sink"]) :
       /\ log["sink"][i].msg.kind = "Pong"
       /\ log["sink"][i].sender = LocalRef("pong")
  /\ \E i \in 1..Len(log["pong"]) :
       /\ log["pong"][i].msg.kind = "Ping"
       /\ log["pong"][i].sender = NoRef
       /\ log["pong"][i].reply_queue = NoQueue

C28_ShutdownGiven(a) ==
  \/ \E i \in 1..Len(mailbox[a]) : mailbox[a][i].msg = ShutdownMsg
  \/ \E i \in 1..Len(log[a]) : log[a][i].msg = ShutdownMsg

C28_Ended ==
  \A m \in ActorManagers :
    mgrpc[m] = "ended" =>
      /\ \A a \in ActorsOf(m) : ~actor_running[a] /\ C28_ShutdownGiven(a)
      /\ \A w \in Workers :
           (ManagerOf(w[1]) = m /\ wpc[w] # "unborn") =>
             \/ joined[w] = "exited" /\ wpc[w] = "exited"
             \/ joined[w] = "abandoned"

C28_SecondEndStep ==
  \A m \in ActorManagers :
    (mgrpc[m] = "ended" /\ end_calls'[m] # end_calls[m]) =>
      UNCHANGED <<chanVars, workerVars, mgrpc, pending_end, pending_join, joined,
                  actor_running, terminated>>

C36_SendStep ==
  \A t \in Threads :
    (pc[t] = "send" /\ pc'[t] # "send") =>
      /\ pc'[t] = "recv"
      /\ in_flight' = in_flight + 1
      /\ sent' = MessageTypeOf(t, call)

\* C36: every request a thread of the client hands to send_json goes out,
\* also when an earlier request of the same client has timed out: a
\* timeout does not leave the client unable to issue requests.
C36_TimeoutLeavesClientUsable == [][C36_SendStep]_vars

\* the names the reverse index lists for manager m
ListedFor(ma, m) == IF m \in DOMAIN ma THEN ma[m] ELSE {}

\* C32: the reverse index agrees with the name map: a name is in the actor
\* set of manager m exactly when the name map has an entry for it whose
\* owning manager is m.  Stated for the states in which no request is being
\* handled and no sweep is in progress, after any interleaving of the two.
C32_ReverseIndexAgrees ==
  (SrvResting /\ SwResting) =>
     \A m \in Managers : ListedFor(manager_actors, m) = OwnedBy(registry, m)

\* C33: every name in the name map is owned by a manager that has a
\* heartbeat record, so the sweeper can reach every entry.  Stated for the
\* states in which no request is being handled and no sweep is in progress,
\* after any interleaving of the two.
C33_EveryOwnerHasHeartbeat ==
  (SrvResting /\ SwResting) =>
     \A n \in DOMAIN registry : registry[n].manager_id \in HbKeys(heartbeats)

C34_LookupStep ==
  (srvpc \in {"lk_in", "lk_read"} /\ srvpc' # srvpc) =>
     \/ srvpc' = "lk_read"
     \/ srvpc' = "done" /\ reply'.message_type = "LookupResult"

\* C34: once a LookupActor has found the name's entry, the handler ends
\* with a LookupResult reply, whatever the monitor thread does to the
\* owning manager's heartbeat record in between.
C34_LookupAlwaysReplies == [][C34_LookupStep]_vars

\* C35: while the registry is running the monitor thread is alive: no
\* scan of the heartbeat map ends it.
C35_SweeperKeepsSweeping == running => swpc # "dead"

\* C31: when lookup("pong") in PingActor's Start handler has failed, the
\* handler has sent no Ping and has called terminate() on its manager's
\* handle, so that run() returns.
C31_FailedLookupTerminates ==
  (call = "lookup" /\ result.kind \notin {Null, "return"} /\ wpc[PingWorker] = "loop") =>
     /\ terminated["PingManager"]
     /\ pong_ref = NoRef
     /\ Exchanged("pong", "Ping") = <<>>

====
